---- MODULE Spec2Model ----
(***************************************************************************)
(* The MCP retrieval server of rag-mcp-poc (src/src/mcp_remote.ts): the    *)
(* argument normalisers, the search and fetch tool handlers, and the       *)
(* weighted ranking they run over the loaded index; the build script that  *)
(* makes the index (splitByHeadings, chunkText, main); POST /search of the  *)
(* HTTP server (src/scripts/server.ts) with its headingWeight; and the     *)
(* order service POST /v1/orders with its idempotency store                *)
(* (src/unnamed/part_005).                                                 *)
(*                                                                         *)
(* Conventions of the model                                                *)
(*  - a JavaScript value is a tagged record (field t); a string is a       *)
(*    sequence of characters, so that String.prototype.trim is computed;   *)
(*  - a finite number is kept in halves (h = 2 * value), so that           *)
(*    Math.trunc is computed on fractions; NaN and the infinities are      *)
(*    kinds of their own;                                                  *)
(*  - a similarity score dot/(|a||b|) is kept as the pair (num, den2)      *)
(*    standing for num / sqrt(den2), or is NaN; scores are compared        *)
(*    exactly, as real numbers (IEEE rounding is not modelled);            *)
(*  - an object reference (a chunk held by a scored entry) is the position *)
(*    of the object in index.chunks.                                       *)
(***************************************************************************)
EXTENDS Integers, Sequences, FiniteSets, TLC

VARIABLES index, calls, build, chunker, orders

vars == <<index, calls, build, chunker, orders>>

\* the state of the build script and of the order service
otherVars == <<build, chunker, orders>>

----------------------------------------------------------------------------
(* Bounds of the model *)

MaxStrLen == 2
MaxHalf == 43
MaxDepth == 2
MaxChunks == 3
MaxDim == 2
MaxLines == 4
MaxTextLen == 4
MaxWindows == 4
MaxParam == 3
MaxCalls == 2
MaxRequests == 3

----------------------------------------------------------------------------
(* JavaScript values *)

Absent == [t |-> "absent"]
JNull == [t |-> "null"]
JArr == [t |-> "arr"]
JBool(b) == [t |-> "bool", b |-> b]
JStr(s) == [t |-> "str", s |-> s]
JNum(kind, h) == [t |-> "num", kind |-> kind, h |-> h]
JObj(f) == [t |-> "obj", f |-> f]

NoFields ==
  [arguments |-> Absent, input |-> Absent, query |-> Absent,
   q |-> Absent, topK |-> Absent, id |-> Absent]

Chars == {" ", "a"}

IsWhitespace(ch) == ch \in {" ", "\n", "\r", "\t"}

Min(a, b) == IF a < b THEN a ELSE b
Max(a, b) == IF a > b THEN a ELSE b

\* String.prototype.trim
Trim(s) ==
  LET RECURSIVE First(_)
      \* the first position from i on that holds no white space
      First(i) == IF i <= Len(s) /\ IsWhitespace(s[i]) THEN First(i + 1) ELSE i
      RECURSIVE Last(_)
      \* the last position up to i that holds no white space
      Last(i) == IF i >= 1 /\ IsWhitespace(s[i]) THEN Last(i - 1) ELSE i
  IN IF First(1) > Len(s) THEN <<>> ELSE SubSeq(s, First(1), Last(Len(s)))

\* Math.trunc of the finite number h/2
Trunc(h) == IF h >= 0 THEN h \div 2 ELSE -((-h) \div 2)

\* typeof v === "object" (null, arrays and plain objects)
TypeofObject(v) == v.t \in {"null", "arr", "obj"}

\* !v
Falsy(v) ==
  \/ v.t \in {"absent", "null"}
  \/ v.t = "bool" /\ ~v.b
  \/ v.t = "str" /\ v.s = <<>>
  \/ v.t = "num" /\ (v.kind = "nan" \/ (v.kind = "fin" /\ v.h = 0))

\* key in v, for v an object
HasKey(v, key) == v.t = "obj" /\ v.f[key] # Absent

\* v[key] for any object-typed v (undefined when the key is missing)
Prop(v, key) == IF v.t = "obj" THEN v.f[key] ELSE Absent

----------------------------------------------------------------------------
(* ArgumentNormalizer *)

DEFAULT_TOPK == 8

\* faulty variant of UnwrapSearch: `input` is tried before `arguments`
UnwrapSearch_inputFirst(v) ==
  LET RECURSIVE U(_)
      U(x) == IF Falsy(x) \/ ~TypeofObject(x) THEN x
              ELSE IF HasKey(x, "input") THEN U(x.f.input)
              ELSE IF HasKey(x, "arguments") THEN U(x.f.arguments)
              ELSE x
  IN U(v)

\* faulty variant of UnwrapSearch: an object that holds a string-valued query
\* is not unwrapped further
UnwrapSearch_siblingQuery(v) ==
  LET RECURSIVE U(_)
      U(x) == IF Falsy(x) \/ ~TypeofObject(x) THEN x
              ELSE IF Prop(x, "query").t = "str" THEN x
              ELSE IF HasKey(x, "arguments") THEN U(x.f.arguments)
              ELSE IF HasKey(x, "input") THEN U(x.f.input)
              ELSE x
  IN U(v)

\* unwrap of normalizeSearchArgs
UnwrapSearch(v) ==
  LET RECURSIVE U(_)
      U(x) == IF Falsy(x) \/ ~TypeofObject(x) THEN x
              ELSE IF HasKey(x, "arguments") THEN U(x.f.arguments)
              ELSE IF HasKey(x, "input") THEN U(x.f.input)
              ELSE x
  IN U(v)

\* unwrap of normalizeFetchArgs
UnwrapFetch(v) ==
  LET RECURSIVE U(_)
      U(x) == IF Falsy(x) \/ ~TypeofObject(x) THEN x
              ELSE IF HasKey(x, "arguments") THEN U(x.f.arguments)
              ELSE IF HasKey(x, "input") THEN U(x.f.input)
              ELSE x
  IN U(v)

\* faulty variant of TopKOf: Math.round in place of Math.trunc
TopKOf_round(o) ==
  LET k == Prop(o, "topK")
  IN IF k.t = "num" /\ k.kind = "fin"
     THEN Max(1, Min(20, IF k.h >= 0 THEN (k.h + 1) \div 2
                                     ELSE -((-k.h) \div 2)))
     ELSE DEFAULT_TOPK

\* o.topK, clamped and truncated, or the default
TopKOf(o) ==
  LET k == Prop(o, "topK")
  IN IF k.t = "num" /\ k.kind = "fin"
     THEN Max(1, Min(20, Trunc(k.h)))
     ELSE DEFAULT_TOPK

\* faulty variant of SearchArgsOf: q is preferred over query
SearchArgsOf_qFirst(v) ==
  IF v.t = "str" THEN [query |-> v.s, topK |-> DEFAULT_TOPK]
  ELSE IF ~Falsy(v) /\ TypeofObject(v)
            /\ (Prop(v, "query").t = "str" \/ Prop(v, "q").t = "str")
       THEN [query |-> IF Prop(v, "q").t = "str"
                       THEN Prop(v, "q").s ELSE Prop(v, "query").s,
             topK |-> TopKOf(v)]
       ELSE [query |-> <<>>, topK |-> DEFAULT_TOPK]

\* the part of normalizeSearchArgs after unwrap; v is the unwrapped value
SearchArgsOf(v) ==
  IF v.t = "str" THEN [query |-> v.s, topK |-> DEFAULT_TOPK]
  ELSE IF ~Falsy(v) /\ TypeofObject(v)
            /\ (Prop(v, "query").t = "str" \/ Prop(v, "q").t = "str")
       THEN [query |-> IF Prop(v, "query").t = "str"
                       THEN Prop(v, "query").s ELSE Prop(v, "q").s,
             topK |-> TopKOf(v)]
       ELSE [query |-> <<>>, topK |-> DEFAULT_TOPK]

NormalizeSearchArgs(raw) == SearchArgsOf(UnwrapSearch(raw))

\* the part of normalizeFetchArgs after unwrap; v is the unwrapped value
FetchIdOf(v) ==
  IF v.t = "str" THEN v.s
  ELSE IF ~Falsy(v) /\ TypeofObject(v) /\ Prop(v, "id").t = "str"
       THEN Prop(v, "id").s
       ELSE <<>>

NormalizeFetchArgs(raw) == FetchIdOf(UnwrapFetch(raw))

----------------------------------------------------------------------------
(* SimilarityScorer and the source weights *)

\* a number that is not NaN, standing for num / sqrt(den2)
Num(num, den2) == [nan |-> FALSE, num |-> num, den2 |-> den2]

NaN == [nan |-> TRUE, num |-> 0, den2 |-> 1]

\* dot(a, b): the sum over the positions of a; past the end of b, b[i] is
\* undefined and the sum is NaN
Dot(a, b) ==
  LET RECURSIVE S(_)
      S(i) == IF i = 0 THEN 0 ELSE S(i - 1) + a[i] * b[i]
  IN IF Len(a) > Len(b) THEN NaN ELSE Num(S(Len(a)), 1)

\* norm(a) squared; Math.sqrt(x) === 0 exactly when x = 0
NormSq(a) == Dot(a, a).num

\* faulty variant of CosineSim: the zero norms are not looked at, and the
\* division 0 / 0 gives NaN
CosineSim_unguarded(a, b) ==
  IF Dot(a, b).nan \/ NormSq(a) * NormSq(b) = 0 THEN NaN
  ELSE Num(Dot(a, b).num, NormSq(a) * NormSq(b))

\* cosineSim(a, b)
CosineSim(a, b) ==
  IF NormSq(a) = 0 \/ NormSq(b) = 0 THEN Num(0, 1)
  ELSE IF Dot(a, b).nan THEN NaN
  ELSE Num(Dot(a, b).num, NormSq(a) * NormSq(b))

\* faulty variant of SourceWeight: every source weighs the same
SourceWeight_flat(source) == 100

\* sourceWeight(source), in hundredths
SourceWeight(source) ==
  IF source = "docs/api.md" THEN 115
  ELSE IF source = "docs/architecture.md" THEN 110
  ELSE IF source = "docs/overview.md" THEN 105
  ELSE IF source = "docs/faq.md" THEN 95
  ELSE 100

\* s.includes(sub) on strings
Includes(s, sub) ==
  \E i \in 0..(Len(s) - Len(sub)) : SubSeq(s, i + 1, i + Len(sub)) = sub

\* the words headingWeight looks for; a character outside ASCII is written
\* as its code point: retry (U+30EA U+30C8 U+30E9 U+30A4), backoff,
\* "POST /v1/orders", authentication (U+8A8D U+8A3C) and "OAuth"
KwRetry == <<"U+30EA", "U+30C8", "U+30E9", "U+30A4">>
KwBackoff == <<"U+30D0", "U+30C3", "U+30AF", "U+30AA", "U+30D5">>
KwPostOrders ==
  <<"P", "O", "S", "T", " ", "/", "v", "1", "/", "o", "r", "d", "e", "r", "s">>
KwAuth == <<"U+8A8D", "U+8A3C">>
KwOAuth == <<"O", "A", "u", "t", "h">>

\* faulty variant of HeadingWeight: the boosts of the two rule families are
\* multiplied
HeadingWeight_combined(heading, query) ==
  LET retry == IF ~Includes(query, KwRetry) THEN 100
               ELSE IF Includes(heading, KwRetry) THEN 135
               ELSE IF Includes(heading, KwBackoff) THEN 125
               ELSE IF Includes(heading, KwPostOrders) THEN 105
               ELSE 100
      auth == IF Includes(query, KwAuth)
                 /\ (Includes(heading, KwOAuth) \/ Includes(heading, KwAuth))
              THEN 125 ELSE 100
  IN (retry * auth) \div 100

\* headingWeight(heading, query) of the HTTP server, in hundredths
HeadingWeight(heading, query) ==
  IF Includes(query, KwRetry) /\ Includes(heading, KwRetry) THEN 135
  ELSE IF Includes(query, KwRetry) /\ Includes(heading, KwBackoff) THEN 125
  ELSE IF Includes(query, KwRetry) /\ Includes(heading, KwPostOrders) THEN 105
  ELSE IF Includes(query, KwAuth)
          /\ (Includes(heading, KwOAuth) \/ Includes(heading, KwAuth))
       THEN 125
  ELSE 100

\* score * weight (the result is in hundredths of the score unit)
Times(score, weight) ==
  IF score.nan THEN NaN ELSE Num(score.num * weight, score.den2)

Sign(n) == IF n > 0 THEN 1 ELSE IF n < 0 THEN -1 ELSE 0

\* x - y, as its sign (-1, 0, 1) or NaN
Minus(x, y) ==
  IF x.nan \/ y.nan THEN NaN
  ELSE IF x.num >= 0 /\ y.num >= 0
  THEN Num(Sign(x.num * x.num * y.den2 - y.num * y.num * x.den2), 1)
  ELSE IF x.num < 0 /\ y.num < 0
       THEN Num(Sign(y.num * y.num * x.den2 - x.num * x.num * y.den2), 1)
       ELSE IF x.num >= 0 THEN Num(1, 1) ELSE Num(-1, 1)

----------------------------------------------------------------------------
(* WeightedRanker of the search tool *)

\* index.chunks.map(c => ({chunk: c, score, weighted}))
ScoreAll(chunks, qEmb) ==
  [i \in 1..Len(chunks) |->
     LET score == CosineSim(qEmb, chunks[i].embedding)
     IN [chunk |-> i, score |-> score,
         weighted |-> Times(score, SourceWeight(chunks[i].meta.source))]]

\* faulty variant of Compare: a.weighted - b.weighted
Compare_ascending(a, b) == Minus(a.weighted, b.weighted)

\* the comparator (a, b) => b.weighted - a.weighted
Compare(a, b) == Minus(b.weighted, a.weighted)

\* faulty variant of SortScored: a sort that is not stable, in which an entry
\* moves in front of the entries it compares equal to
SortScored_tiesReversed(xs) ==
  LET Before(x, y) == Compare(x, y).nan \/ Compare(x, y).num <= 0
      RECURSIVE Insert(_, _)
      Insert(x, s) ==
        IF s = <<>> THEN <<x>>
        ELSE IF Before(x, Head(s)) THEN <<x>> \o s
        ELSE <<Head(s)>> \o Insert(x, Tail(s))
      RECURSIVE Fold(_, _)
      Fold(acc, rest) ==
        IF rest = <<>> THEN acc
        ELSE Fold(Insert(Head(rest), acc), Tail(rest))
  IN Fold(<<>>, xs)

\* Array.prototype.sort with Compare: a stable sort, in which a comparator
\* result of NaN counts as +0
SortScored(xs) ==
  LET Before(x, y) == ~Compare(x, y).nan /\ Compare(x, y).num < 0
      RECURSIVE Insert(_, _)
      Insert(x, s) ==
        IF s = <<>> THEN <<x>>
        ELSE IF Before(x, Head(s)) THEN <<x>> \o s
        ELSE <<Head(s)>> \o Insert(x, Tail(s))
      RECURSIVE Fold(_, _)
      Fold(acc, rest) ==
        IF rest = <<>> THEN acc
        ELSE Fold(Insert(Head(rest), acc), Tail(rest))
  IN Fold(<<>>, xs)

\* xs.slice(0, n) for n >= 0
SliceTo(xs, n) == SubSeq(xs, 1, Min(n, Len(xs)))

\* the scored entries the search handler keeps
Rank(chunks, qEmb, topK) == SliceTo(SortScored(ScoreAll(chunks, qEmb)), topK)

----------------------------------------------------------------------------
(* RetrievalService: the tool handlers *)

DOC_BASE_URL == "https://github.com/Kou0402/rag-mcp-poc/blob/develop/"

\* `${meta.heading} (${meta.source})`
TitleOf(meta) == <<meta.heading, " (", meta.source, ")">>

\* canonicalUrlFor(meta)
CanonicalUrlFor(meta) == <<DOC_BASE_URL, meta.source>>

NoThrow == [hasMessage |-> FALSE, message |-> "", str |-> ""]
NoResp == [isError |-> FALSE, body |-> [none |-> TRUE]]

\* a tool call that has not started
IdleCall ==
  [op |-> "none", pc |-> "idle", raw |-> Absent, v |-> Absent,
   query |-> <<>>, topK |-> 0, q |-> <<>>, id |-> <<>>,
   embedCalls |-> 0, embedModel |-> "", embedInput |-> <<>>,
   thrown |-> NoThrow, qEmb |-> <<>>, scored |-> <<>>,
   lookups |-> 0, resp |-> NoResp]

\* e?.message ?? String(e)
MessageOf(e) == IF e.hasMessage THEN e.message ELSE e.str

ErrorResp(error, message) ==
  [isError |-> TRUE, body |-> [error |-> error, message |-> message]]

InvalidQueryMessage == "search arguments did not contain a valid query string"
InvalidIdMessage == "fetch arguments did not contain a valid id string"

\* faulty variant of SearchBegin: the embedding is requested before the
\* query is validated
SearchBegin_embedFirst(raw) ==
  LET v == UnwrapSearch(raw)
      n == SearchArgsOf(v)
      q == Trim(n.query)
      c == [IdleCall EXCEPT !.op = "search", !.raw = raw, !.v = v,
              !.query = n.query, !.topK = n.topK, !.q = q,
              !.embedCalls = 1, !.embedModel = index.model,
              !.embedInput = q]
  IN IF q = <<>>
     THEN [c EXCEPT !.pc = "done",
                    !.resp = ErrorResp("invalid_query", InvalidQueryMessage)]
     ELSE [c EXCEPT !.pc = "awaitEmbed"]

\* faulty variant of SearchBegin: a blank query is not rejected
SearchBegin_defaultQuery(raw) ==
  LET v == UnwrapSearch(raw)
      n == SearchArgsOf(v)
      q == Trim(n.query)
      c == [IdleCall EXCEPT !.op = "search", !.raw = raw, !.v = v,
              !.query = n.query, !.topK = n.topK, !.q = q]
  IN [c EXCEPT !.pc = "awaitEmbed", !.embedCalls = 1,
               !.embedModel = index.model, !.embedInput = q]

\* faulty variant of SearchBegin: the model of the build script is used in
\* place of index.model
SearchBegin_fixedModel(raw) ==
  LET v == UnwrapSearch(raw)
      n == SearchArgsOf(v)
      q == Trim(n.query)
      c == [IdleCall EXCEPT !.op = "search", !.raw = raw, !.v = v,
              !.query = n.query, !.topK = n.topK, !.q = q]
  IN IF q = <<>>
     THEN [c EXCEPT !.pc = "done",
                    !.resp = ErrorResp("invalid_query", InvalidQueryMessage)]
     ELSE [c EXCEPT !.pc = "awaitEmbed", !.embedCalls = 1,
                    !.embedModel = "text-embedding-3-large",
                    !.embedInput = q]

\* the search handler up to its await: normalise, validate, and issue the
\* embedding request embedQuery(q, index.model)
SearchBegin(raw) ==
  LET v == UnwrapSearch(raw)
      n == SearchArgsOf(v)
      q == Trim(n.query)
      c == [IdleCall EXCEPT !.op = "search", !.raw = raw, !.v = v,
              !.query = n.query, !.topK = n.topK, !.q = q]
  IN IF q = <<>>
     THEN [c EXCEPT !.pc = "done",
                    !.resp = ErrorResp("invalid_query", InvalidQueryMessage)]
     ELSE [c EXCEPT !.pc = "awaitEmbed", !.embedCalls = 1,
                    !.embedModel = index.model, !.embedInput = q]

\* scored.map(({chunk}) => ({id, title, url}))
ResultsOf(scored) ==
  [i \in 1..Len(scored) |->
     LET chunk == index.chunks[scored[i].chunk]
     IN [id |-> chunk.id, title |-> TitleOf(chunk.meta),
         url |-> CanonicalUrlFor(chunk.meta)]]

\* faulty variant of SearchFinish: topK is read from a variable the handlers
\* share, which holds the topK of the first call slot
SearchFinish_sharedTopK(c, qEmb) ==
  LET scored == Rank(index.chunks, qEmb, calls[1].topK)
  IN [c EXCEPT !.pc = "done", !.qEmb = qEmb, !.scored = scored,
               !.resp = [isError |-> FALSE,
                         body |-> [results |-> ResultsOf(scored)]]]

\* the search handler after the embedding resolved with qEmb
SearchFinish(c, qEmb) ==
  LET scored == Rank(index.chunks, qEmb, c.topK)
  IN [c EXCEPT !.pc = "done", !.qEmb = qEmb, !.scored = scored,
               !.resp = [isError |-> FALSE,
                         body |-> [results |-> ResultsOf(scored)]]]

\* faulty variant of SearchCatch: the failure becomes an empty result list
SearchCatch_emptyResults(c, e) ==
  [c EXCEPT !.pc = "done", !.thrown = e,
            !.resp = [isError |-> FALSE, body |-> [results |-> <<>>]]]

\* the catch clause of the search handler, e the value thrown
SearchCatch(c, e) ==
  [c EXCEPT !.pc = "done", !.thrown = e,
            !.resp = ErrorResp("search_failed", MessageOf(e))]

\* index.chunks.find(c => c.id === id): the position of the first chunk with
\* that id, 0 when there is none
FindById(chunks, id) ==
  LET hits == {i \in 1..Len(chunks) : chunks[i].id = id}
  IN IF hits = {} THEN 0 ELSE CHOOSE i \in hits : \A j \in hits : i <= j

\* the response of the fetch handler on a miss
NotFoundResp(id) ==
  [isError |-> TRUE,
   body |-> [id |-> id, title |-> <<"NOT_FOUND">>, text |-> "",
             url |-> <<DOC_BASE_URL>>,
             metadata |-> [error |-> "not_found"]]]

\* the response of the fetch handler on a hit
DocResp(hit) ==
  [isError |-> FALSE,
   body |-> [id |-> hit.id, title |-> TitleOf(hit.meta), text |-> hit.text,
             url |-> CanonicalUrlFor(hit.meta), metadata |-> hit.meta]]

\* faulty variant of FetchHandler: the index is searched before the id is
\* validated
FetchHandler_lookupFirst(raw) ==
  LET v == UnwrapFetch(raw)
      id == Trim(FetchIdOf(v))
      c == [IdleCall EXCEPT !.op = "fetch", !.pc = "done", !.raw = raw,
              !.v = v, !.id = id, !.lookups = 1]
      pos == FindById(index.chunks, id)
  IN IF id = <<>>
     THEN [c EXCEPT !.resp = ErrorResp("invalid_id", InvalidIdMessage)]
     ELSE IF pos = 0
          THEN [c EXCEPT !.resp = NotFoundResp(id)]
          ELSE [c EXCEPT !.resp = DocResp(index.chunks[pos])]

\* the fetch handler (it does not suspend)
FetchHandler(raw) ==
  LET v == UnwrapFetch(raw)
      id == Trim(FetchIdOf(v))
      c == [IdleCall EXCEPT !.op = "fetch", !.pc = "done", !.raw = raw,
              !.v = v, !.id = id]
      pos == FindById(index.chunks, id)
  IN IF id = <<>>
     THEN [c EXCEPT !.resp = ErrorResp("invalid_id", InvalidIdMessage)]
     ELSE IF pos = 0
          THEN [c EXCEPT !.lookups = 1, !.resp = NotFoundResp(id)]
          ELSE [c EXCEPT !.lookups = 1, !.resp = DocResp(index.chunks[pos])]

----------------------------------------------------------------------------
(* The HTTP server of scripts/server.ts: POST /search *)

\* sourceWeight(source) of the HTTP server, in hundredths
HttpSourceWeight(source) ==
  IF source = "docs/api.md" THEN 135
  ELSE IF source = "docs/architecture.md" THEN 105
  ELSE IF source = "docs/overview.md" THEN 105
  ELSE IF source = "docs/faq.md" THEN 95
  ELSE 100

\* POST /search up to its await: Body.parse(req.body), whose ZodError the
\* framework answers with status 500, then embedQuery(query, index.model)
HttpSearchBegin(body) ==
  LET query == Prop(body, "query")
      topK == Prop(body, "topK")
      okQuery == query.t = "str" /\ Len(query.s) >= 1
      okTopK == \/ topK = Absent
                \/ /\ topK.t = "num" /\ topK.kind = "fin"
                   /\ topK.h % 2 = 0 /\ topK.h >= 2 * 1 /\ topK.h <= 2 * 20
      c == [IdleCall EXCEPT !.op = "httpSearch", !.raw = body]
  IN IF body.t = "obj" /\ okQuery /\ okTopK
     THEN [c EXCEPT !.pc = "awaitEmbed", !.query = query.s,
                    !.topK = IF topK = Absent THEN 5 ELSE topK.h \div 2,
                    !.embedCalls = 1, !.embedModel = index.model,
                    !.embedInput = query.s]
     ELSE [c EXCEPT !.pc = "done",
                    !.resp = [isError |-> TRUE, body |-> [statusCode |-> 500]]]

\* POST /search after the embedding resolved with qEmb: map, sort, slice and
\* map to hits (the texts of the indexes hold no white space and are shorter
\* than 240 characters, so that preview is the text)
HttpSearchFinish(c, qEmb) ==
  LET all == [i \in 1..Len(index.chunks) |->
                LET chunk == index.chunks[i]
                    score == CosineSim(qEmb, chunk.embedding)
                IN [chunk |-> i, score |-> score,
                    weighted |->
                      Times(Times(score, HttpSourceWeight(chunk.meta.source)),
                            HeadingWeight(chunk.meta.heading, c.query))]]
      scored == SliceTo(SortScored(all), c.topK)
      hits == [i \in 1..Len(scored) |->
                 LET chunk == index.chunks[scored[i].chunk]
                 IN [id |-> chunk.id, score |-> scored[i].score,
                     weighted |-> scored[i].weighted,
                     source |-> chunk.meta.source,
                     heading |-> chunk.meta.heading, part |-> chunk.meta.part,
                     preview |-> chunk.text]]
  IN [c EXCEPT !.pc = "done", !.qEmb = qEmb, !.scored = scored,
               !.resp = [isError |-> FALSE,
                         body |-> [model |-> index.model, hits |-> hits]]]

----------------------------------------------------------------------------
(* The build script: splitByHeadings, chunkText and main *)

EMBEDDING_MODEL == "text-embedding-3-large"

\* the heading of the text before the first heading line (U+FF08 U+5148
\* U+982D U+FF09)
TopHeading == <<"U+FF08", "U+5148", "U+982D", "U+FF09">>

\* lines.join("\n")
JoinLines(lines) ==
  LET RECURSIVE J(_)
      J(k) == IF k = 0 THEN <<>>
              ELSE IF k = 1 THEN lines[1]
              ELSE J(k - 1) \o <<"\n">> \o lines[k]
  IN J(Len(lines))

\* md.split(/\r?\n/)
SplitLines(md) ==
  LET StripCR(cur) ==
        IF cur # <<>> /\ cur[Len(cur)] = "\r"
        THEN SubSeq(cur, 1, Len(cur) - 1) ELSE cur
      RECURSIVE F(_, _, _)
      F(i, cur, acc) ==
        IF i > Len(md) THEN Append(acc, cur)
        ELSE IF md[i] = "\n" THEN F(i + 1, <<>>, Append(acc, StripCR(cur)))
        ELSE F(i + 1, Append(cur, md[i]), acc)
  IN F(1, <<>>, <<>>)

\* line.match(/^(#{1,6})\s+(.*)$/): whether the line is a heading line, and
\* the group (.*)
MatchHeading(line) ==
  LET RECURSIVE Run(_, _)
      \* the number of characters from position i on that satisfy Is
      Run(i, hash) ==
        IF i <= Len(line) /\ (IF hash THEN line[i] = "#"
                                       ELSE IsWhitespace(line[i]))
        THEN 1 + Run(i + 1, hash) ELSE 0
      hashes == Run(1, TRUE)
      spaces == Run(hashes + 1, FALSE)
  IN IF hashes \in 1..6 /\ spaces >= 1
     THEN [matched |-> TRUE,
           text |-> SubSeq(line, hashes + spaces + 1, Len(line))]
     ELSE [matched |-> FALSE, text |-> <<>>]

\* faulty variant of Flush: a block is pushed for an empty content too
Flush_keepEmpty(st) ==
  LET content == Trim(JoinLines(st.buf))
  IN [st EXCEPT !.buf = <<>>,
                !.blocks = Append(@, [heading |-> st.currentHeading,
                                      content |-> content])]

\* flush() of splitByHeadings
Flush(st) ==
  LET content == Trim(JoinLines(st.buf))
  IN [st EXCEPT !.buf = <<>>,
                !.blocks = IF content # <<>>
                           THEN Append(@, [heading |-> st.currentHeading,
                                           content |-> content])
                           ELSE @]

\* splitByHeadings(md)
SplitByHeadings(md) ==
  LET lines == SplitLines(md)
      RECURSIVE F(_, _)
      F(i, st) ==
        IF i > Len(lines) THEN Flush(st).blocks
        ELSE LET m == MatchHeading(lines[i])
             IN IF m.matched
                THEN F(i + 1, [Flush(st) EXCEPT !.currentHeading = Trim(m.text)])
                ELSE F(i + 1, [st EXCEPT !.buf = Append(@, lines[i])])
  IN F(1, [blocks |-> <<>>, currentHeading |-> TopHeading, buf |-> <<>>])

\* text.replace(/\n{3,}/g, "\n\n")
CollapseNewlines(text) ==
  LET RECURSIVE F(_, _)
      \* run is the number of line feeds that end the text before position i
      F(i, run) ==
        IF i > Len(text) THEN <<>>
        ELSE IF text[i] = "\n"
             THEN (IF run >= 2 THEN <<>> ELSE <<"\n">>) \o F(i + 1, run + 1)
             ELSE <<text[i]>> \o F(i + 1, 0)
  IN F(1, 0)

\* s.slice(from, to) for 0 <= from
Slice(s, from, to) == SubSeq(s, from + 1, to)

IdleChunker ==
  [pc |-> "idle", normalized |-> <<>>, maxChars |-> 0, overlap |-> 0,
   start |-> 0, chunks |-> <<>>]

\* chunkText(text, maxChars, overlap) up to its loop, or to its early return
ChunkerEntry(text, maxChars, overlap) ==
  LET normalized == Trim(CollapseNewlines(text))
      k == [IdleChunker EXCEPT !.normalized = normalized,
                               !.maxChars = maxChars, !.overlap = overlap]
  IN IF Len(normalized) <= maxChars
     THEN [k EXCEPT !.pc = "returned", !.chunks = <<normalized>>]
     ELSE [k EXCEPT !.pc = "loop"]

\* faulty variant of ChunkerIterate: the next window starts where the last
\* one ended
ChunkerIterate_noOverlap(k) ==
  IF ~(k.start < Len(k.normalized)) THEN [k EXCEPT !.pc = "returned"]
  ELSE LET end == Min(Len(k.normalized), k.start + k.maxChars)
           pushed == [k EXCEPT !.chunks =
                                 Append(@, Slice(k.normalized, k.start, end))]
       IN IF end = Len(k.normalized)
          THEN [pushed EXCEPT !.pc = "returned"]
          ELSE [pushed EXCEPT !.start = end]

\* faulty variant of ChunkerIterate: the next window starts one character
\* further back
ChunkerIterate_stepBack(k) ==
  IF ~(k.start < Len(k.normalized)) THEN [k EXCEPT !.pc = "returned"]
  ELSE LET end == Min(Len(k.normalized), k.start + k.maxChars)
           pushed == [k EXCEPT !.chunks =
                                 Append(@, Slice(k.normalized, k.start, end))]
       IN IF end = Len(k.normalized)
          THEN [pushed EXCEPT !.pc = "returned"]
          ELSE [pushed EXCEPT !.start = Max(0, end - k.overlap - 1)]

\* one test of the while condition of chunkText and, when it holds, one run
\* of the loop body
ChunkerIterate(k) ==
  IF ~(k.start < Len(k.normalized)) THEN [k EXCEPT !.pc = "returned"]
  ELSE LET end == Min(Len(k.normalized), k.start + k.maxChars)
           pushed == [k EXCEPT !.chunks =
                                 Append(@, Slice(k.normalized, k.start, end))]
       IN IF end = Len(k.normalized)
          THEN [pushed EXCEPT !.pc = "returned"]
          ELSE [pushed EXCEPT !.start = Max(0, end - k.overlap)]

\* the value chunkText(text, maxChars, overlap) returns
ChunkText(text, maxChars, overlap) ==
  LET RECURSIVE Run(_)
      Run(k) == IF k.pc = "returned" THEN k.chunks ELSE Run(ChunkerIterate(k))
  IN Run(ChunkerEntry(text, maxChars, overlap))

DefaultMaxChars == 1500
DefaultOverlap == 150

\* String(i) for i >= 0
Decimal(i) ==
  LET digits == <<"0", "1", "2", "3", "4", "5", "6", "7", "8", "9">>
      RECURSIVE D(_)
      D(n) == IF n < 10 THEN <<digits[n + 1]>>
              ELSE D(n \div 10) \o <<digits[(n % 10) + 1]>>
  IN D(i)

\* `${rel}::${heading}::${i}`; the path rel is kept as one piece
ChunkIdOf(rel, heading, i) ==
  <<rel>> \o <<":", ":">> \o heading \o <<":", ":">> \o Decimal(i)

\* the chunks main pushes for one file
ChunksOfFile(file) ==
  LET blocks == SplitByHeadings(file.md)
      PartsOf(b) == ChunkText(b.content, DefaultMaxChars, DefaultOverlap)
      ChunksOfBlock(b) ==
        [p \in 1..Len(PartsOf(b)) |->
           [id |-> ChunkIdOf(file.rel, b.heading, p - 1),
            text |-> PartsOf(b)[p],
            meta |-> [source |-> file.rel, heading |-> b.heading,
                      part |-> p - 1]]]
      RECURSIVE F(_)
      F(n) == IF n = 0 THEN <<>> ELSE F(n - 1) \o ChunksOfBlock(blocks[n])
  IN F(Len(blocks))

BATCH_SIZE == 64

IdleBuild ==
  [pc |-> "idle", files |-> <<>>, read |-> 0, chunks |-> <<>>, i |-> 0,
   requests |-> <<>>, indexed |-> <<>>, written |-> FALSE,
   out |-> [model |-> "", chunks |-> <<>>]]

----------------------------------------------------------------------------
(* The order service *)

IDEMPOTENCY_KEY_MAX == 64

UpperLetters ==
  {"A", "B", "C", "D", "E", "F", "G", "H", "I", "J", "K", "L", "M",
   "N", "O", "P", "Q", "R", "S", "T", "U", "V", "W", "X", "Y", "Z"}
LowerLetters ==
  {"a", "b", "c", "d", "e", "f", "g", "h", "i", "j", "k", "l", "m",
   "n", "o", "p", "q", "r", "s", "t", "u", "v", "w", "x", "y", "z"}
Digits == {"0", "1", "2", "3", "4", "5", "6", "7", "8", "9"}

\* the class [A-Za-z0-9-_.] of IDEMPOTENCY_KEY_RE: the ranges A-Z, a-z and
\* 0-9 and the characters - _ and .
KeyReClass ==
  UpperLetters \union LowerLetters \union Digits \union {"-", "_", "."}

\* IDEMPOTENCY_KEY_RE.test(key) for /^[A-Za-z0-9-_.]+$/
KeyReTest(key) ==
  /\ key # <<>>
  /\ \A i \in 1..Len(key) : key[i] \in KeyReClass

\* faulty variant of KeyFormatOk: a key of IDEMPOTENCY_KEY_MAX characters is
\* too long
KeyFormatOk_shorter(key) ==
  ~(Len(key) >= IDEMPOTENCY_KEY_MAX \/ ~KeyReTest(key))

\* the negation of the format test of the handler
KeyFormatOk(key) ==
  ~(Len(key) > IDEMPOTENCY_KEY_MAX \/ ~KeyReTest(key))

\* an array value
JList(xs) == [t |-> "list", xs |-> xs]

\* (Array.isArray(raw) ? raw[0] : raw ?? "").toString().trim()
KeyOfHeader(raw) ==
  LET first == IF raw.t = "list" THEN raw.xs[1]
               ELSE IF raw.t \in {"absent", "null"} THEN JStr(<<>>)
               ELSE raw
  IN Trim(first.s)

\* a request body with no property
EmptyBody ==
  JObj([customerId |-> Absent, currency |-> Absent, items |-> Absent,
        sku |-> Absent])

\* request.body || {}
BodyOf(reqBody) == IF Falsy(reqBody) THEN EmptyBody ELSE reqBody

\* the property names of the bodies, in the order Array.prototype.sort
\* puts them
SortedNames ==
  <<"currency", "customerId", "items", "quantity", "sku", "unitPrice">>

\* Object.keys(v).sort()
SortedKeys(v) ==
  LET Own(k) == k \in DOMAIN v.f /\ v.f[k] # Absent
  IN SelectSeq(SortedNames, Own)

\* JSON.stringify(v, allow) with an array replacer: of every object, at every
\* depth, the properties named in allow are written, in the order of allow;
\* the elements of an array are all written
RECURSIVE Stringify(_, _)
Stringify(v, allow) ==
  IF v.t = "obj"
  THEN LET Own(k) == k \in DOMAIN v.f /\ v.f[k] # Absent
           ks == SelectSeq(allow, Own)
       IN [t |-> "obj",
           props |-> [i \in 1..Len(ks) |->
                        [name |-> ks[i], val |-> Stringify(v.f[ks[i]], allow)]]]
  ELSE IF v.t = "list"
       THEN [t |-> "list",
             xs |-> [i \in 1..Len(v.xs) |-> Stringify(v.xs[i], allow)]]
       ELSE v

\* hashBody(body); SHA-256 is taken to be free of collisions, so a digest is
\* the string it was made from
HashBody(body) == [sha256 |-> Stringify(body, SortedKeys(body))]

\* the number v || 0 of an integer-valued property
NumberOr0(v) == IF Falsy(v) THEN 0 ELSE v.h \div 2

\* items.reduce((s, it) => s + (it.unitPrice || 0) * (it.quantity || 0), 0)
TotalAmount(items) ==
  LET RECURSIVE Sum(_)
      Sum(n) == IF n = 0 THEN 0
                ELSE Sum(n - 1) + NumberOr0(items[n].f.unitPrice)
                                  * NumberOr0(items[n].f.quantity)
  IN Sum(Len(items))

\* the order service after buildServer(): an empty idemStore; log lists the
\* requests answered so far, uuids counts the calls of randomUUID, and now
\* is the clock
NoOrders == [idemStore |-> <<>>, log |-> <<>>, uuids |-> 0, now |-> 0]

\* reply.status(status).send(body), answering the request (header, reqBody)
Replied(o, header, reqBody, status, body) ==
  [o EXCEPT !.log = Append(@, [header |-> header, reqBody |-> reqBody,
                               status |-> status, body |-> body,
                               uuids |-> o.uuids])]

\* the body of the 409 response (message stands for the Japanese text of the
\* handler)
ConflictBody ==
  [error |-> [code |-> "IDEMPOTENCY_CONFLICT",
              message |-> "Idempotency-Key reused with a different body"]]

\* the branch of the handler that creates an order
CreateOrder(o, header, reqBody, key) ==
  LET body == BodyOf(reqBody)
      orderId == <<"ord_", o.uuids + 1>>
      items == IF body.f.items.t = "list" THEN body.f.items.xs ELSE <<>>
      resp == [orderId |-> orderId, status |-> "PENDING",
               totalAmount |-> TotalAmount(items),
               currency |-> IF Falsy(body.f.currency) THEN JStr(<<"J", "P", "Y">>)
                            ELSE body.f.currency,
               createdAt |-> o.now]
      stored == [o EXCEPT !.uuids = @ + 1,
                          !.idemStore =
                            (key :> [bodyHash |-> HashBody(body),
                                     statusCode |-> 201,
                                     responseBody |-> resp,
                                     createdAt |-> o.now]) @@ @]
  IN Replied(stored, header, reqBody, 201, resp)

\* faulty variant of PostOrders: a stored key with the same body creates the
\* order again
PostOrders_noReplay(o, header, reqBody) ==
  LET key == KeyOfHeader(header)
      body == BodyOf(reqBody)
  IN IF key = <<>>
     THEN Replied(o, header, reqBody, 400,
                  [error |-> [message |-> "Idempotency-Key required"]])
     ELSE IF ~KeyFormatOk(key)
          THEN Replied(o, header, reqBody, 400,
                       [error |-> [message |-> "Invalid Idempotency-Key format"]])
          ELSE IF key \in DOMAIN o.idemStore
                  /\ o.idemStore[key].bodyHash # HashBody(body)
               THEN Replied(o, header, reqBody, 409, ConflictBody)
               ELSE CreateOrder(o, header, reqBody, key)

\* faulty variant of PostOrders: a stored key with another body creates a new
\* order, whose record replaces the stored one
PostOrders_conflictCreates(o, header, reqBody) ==
  LET key == KeyOfHeader(header)
      body == BodyOf(reqBody)
  IN IF key = <<>>
     THEN Replied(o, header, reqBody, 400,
                  [error |-> [message |-> "Idempotency-Key required"]])
     ELSE IF ~KeyFormatOk(key)
          THEN Replied(o, header, reqBody, 400,
                       [error |-> [message |-> "Invalid Idempotency-Key format"]])
          ELSE IF key \in DOMAIN o.idemStore
                  /\ o.idemStore[key].bodyHash = HashBody(body)
               THEN Replied(o, header, reqBody,
                            o.idemStore[key].statusCode,
                            o.idemStore[key].responseBody)
               ELSE CreateOrder(o, header, reqBody, key)

\* faulty variant of PostOrders: a conflict stores the hash of the new body
PostOrders_conflictStores(o, header, reqBody) ==
  LET key == KeyOfHeader(header)
      body == BodyOf(reqBody)
  IN IF key = <<>>
     THEN Replied(o, header, reqBody, 400,
                  [error |-> [message |-> "Idempotency-Key required"]])
     ELSE IF ~KeyFormatOk(key)
          THEN Replied(o, header, reqBody, 400,
                       [error |-> [message |-> "Invalid Idempotency-Key format"]])
          ELSE IF key \in DOMAIN o.idemStore
               THEN IF o.idemStore[key].bodyHash = HashBody(body)
                    THEN Replied(o, header, reqBody,
                                 o.idemStore[key].statusCode,
                                 o.idemStore[key].responseBody)
                    ELSE Replied([o EXCEPT !.idemStore[key].bodyHash =
                                             HashBody(body)],
                                 header, reqBody, 409, ConflictBody)
               ELSE CreateOrder(o, header, reqBody, key)

\* the handler of POST /v1/orders, for the request (header, reqBody)
PostOrders(o, header, reqBody) ==
  LET key == KeyOfHeader(header)
      body == BodyOf(reqBody)
  IN IF key = <<>>
     THEN Replied(o, header, reqBody, 400,
                  [error |-> [message |-> "Idempotency-Key required"]])
     ELSE IF ~KeyFormatOk(key)
          THEN Replied(o, header, reqBody, 400,
                       [error |-> [message |-> "Invalid Idempotency-Key format"]])
          ELSE IF key \in DOMAIN o.idemStore
               THEN IF o.idemStore[key].bodyHash = HashBody(body)
                    THEN Replied(o, header, reqBody,
                                 o.idemStore[key].statusCode,
                                 o.idemStore[key].responseBody)
                    ELSE Replied(o, header, reqBody, 409, ConflictBody)
               ELSE CreateOrder(o, header, reqBody, key)

----------------------------------------------------------------------------
(* Inputs *)

\* all strings over Chars of length at most n
StrsUpTo(n) ==
  UNION {[1..k -> Chars] : k \in 0..n}

StrVals == {JStr(s) : s \in StrsUpTo(MaxStrLen)}

FiniteNums == {JNum("fin", h) : h \in -MaxHalf..MaxHalf}
NonFiniteNums == {JNum("nan", 0), JNum("inf", 0), JNum("ninf", 0)}

Obj(query, q, topK, id) ==
  JObj([NoFields EXCEPT !.query = query, !.q = q, !.topK = topK, !.id = id])

\* values a query, q or id field takes
TextFieldVals == {Absent, JNull, JNum("fin", 6)} \union StrVals

\* values a topK field takes
TopKFieldVals ==
  {Absent, JNull, JStr(<<"a">>)} \union FiniteNums \union NonFiniteNums

Prims ==
  {JNull, JArr, JBool(FALSE), JBool(TRUE), JNum("fin", 0), JNum("fin", 16),
   JNum("nan", 0)} \union StrVals

SearchLeaves ==
  {Obj(query, q, topK, Absent) :
     query \in TextFieldVals, q \in TextFieldVals,
     topK \in {Absent, JNum("fin", 5)}}
  \union
  {Obj(query, q, topK, Absent) :
     query \in {Absent, JStr(<<"a">>)}, q \in {Absent, JStr(<<" ", "a">>)},
     topK \in TopKFieldVals}

FetchLeaves ==
  {Obj(query, Absent, Absent, id) :
     query \in {Absent, JStr(<<"a">>)}, id \in TextFieldVals}

\* the values wrapped in envelopes
CoreLeaves ==
  Prims \union
  {Obj(query, q, topK, id) :
     query \in {Absent, JStr(<<"a">>)}, q \in {Absent, JStr(<<" ">>)},
     topK \in {Absent, JNum("fin", 3)}, id \in {Absent, JStr(<<"a">>)}}

Decoy == JStr(<<"a", "a">>)

\* the envelopes around x: either key alone, both keys, and sibling fields
EnvelopesOf(x) ==
  {JObj([NoFields EXCEPT !.arguments = x]),
   JObj([NoFields EXCEPT !.input = x]),
   JObj([NoFields EXCEPT !.arguments = x, !.input = Decoy]),
   JObj([NoFields EXCEPT !.arguments = Decoy, !.input = x]),
   JObj([NoFields EXCEPT !.arguments = x, !.query = Decoy, !.id = Decoy,
                         !.topK = JNum("fin", 4)]),
   JObj([NoFields EXCEPT !.input = x, !.q = Decoy, !.id = Decoy])}

\* CoreLeaves wrapped in exactly d envelopes
Wrapped(d) ==
  LET RECURSIVE W(_)
      W(k) == IF k = 0 THEN CoreLeaves
              ELSE UNION {EnvelopesOf(x) : x \in W(k - 1)}
  IN W(d)

\* queries that name a topic headingWeight knows
TopicQueries == {JStr(KwRetry), Obj(JStr(KwAuth), Absent, Absent, Absent)}

Payloads ==
  Prims \union SearchLeaves \union FetchLeaves \union TopicQueries
        \union UNION {Wrapped(d) : d \in 1..MaxDepth}

\* the id of the chunk at position i of a generated index
IdAt(i) == [j \in 1..i |-> "a"]

Models == {"text-embedding-3-large", "text-embedding-3-small"}

ChunkOf(id, source, heading, embedding) ==
  [id |-> id, text |-> "text", embedding |-> embedding,
   meta |-> [source |-> source, heading |-> heading, part |-> 0]]

\* the chunk lists of the service specification; the second has an id twice,
\* as the build gives a document that repeats a heading: the two chunks have
\* the same source, heading and part, and each the text of its own section
ServiceChunkLists ==
  {<<>>,
   <<ChunkOf(<<"a">>, "docs/api.md", KwOAuth, <<1, 0>>),
     ChunkOf(<<"a", "a">>, "docs/faq.md", <<"Q", "3">> \o KwRetry, <<1, 1>>),
     [ChunkOf(<<"a">>, "docs/api.md", KwOAuth, <<0, 1>>)
        EXCEPT !.text = "text of the second section"]>>}

ServiceIndexes ==
  {[model |-> m, chunks |-> cs] : m \in Models, cs \in ServiceChunkLists}

\* the vectors the embedding provider answers with; the last is as similar
\* to the first chunk of the service index as to the third
ServiceVecs == {<<1, 0>>, <<-1, 1>>, <<1, 1>>}

\* answers of the provider: four of the index's length, a shorter one and a
\* longer one
RankVecs == {<<1, 0>>, <<1, 1>>, <<-1, 1>>, <<0, 0>>, <<1>>, <<1, 0, 1>>}

\* every list of up to MaxChunks chunks of two sources and four embeddings
RankChunkLists ==
  LET sources == {"docs/api.md", "docs/faq.md"}
      embeddings == {<<1, 0>>, <<0, 1>>, <<1, 1>>, <<-1, 0>>}
  IN UNION {
       {[i \in 1..n |-> ChunkOf(IdAt(i), src[i], <<"Q", "1">>, emb[i])] :
          src \in [1..n -> sources], emb \in [1..n -> embeddings]} :
       n \in 0..MaxChunks}

RankIndexes ==
  {[model |-> "text-embedding-3-large", chunks |-> cs] : cs \in RankChunkLists}

RankPayloads ==
  {JStr(<<"a">>)} \union
  {Obj(JStr(<<"a">>), Absent, JNum("fin", h), Absent) : h \in {2, 4, 40}}

\* every vector of 1 to MaxDim components over -1, 0, 1
SimVecs == UNION {[1..n -> {-1, 0, 1}] : n \in 1..MaxDim}

\* the indexes with one chunk, whose embedding is any vector of SimVecs
SimIndexes ==
  {[model |-> "text-embedding-3-large",
    chunks |-> <<ChunkOf(IdAt(1), "docs/api.md", <<"Q", "1">>, emb)>>] :
     emb \in SimVecs}

SimPayloads == {JStr(<<"a">>)}

\* the lines of the documents of the build specification: two heading lines
\* with the same text, a heading line with another text, a line that starts
\* with # and is no heading, a text line and an empty line
DocLines ==
  {<<"#", " ", "A">>, <<"#", "#", " ", " ", "A", " ">>, <<"#", " ", "B">>,
   <<"#", "x">>, <<"x">>, <<>>}

\* every document of 1 to MaxLines lines
Docs == {JoinLines(ls) : ls \in UNION {[1..n -> DocLines] : n \in 1..MaxLines}}

\* the sorted file lists listMarkdownFiles returns: none, one file with any
\* document, two files with the same document, and BATCH_SIZE + 1 files of
\* one section each, whose texts alternate between two lines
BuildFileLists ==
  LET names ==
        <<"docs/f01.md", "docs/f02.md", "docs/f03.md", "docs/f04.md", "docs/f05.md",
          "docs/f06.md", "docs/f07.md", "docs/f08.md", "docs/f09.md", "docs/f10.md",
          "docs/f11.md", "docs/f12.md", "docs/f13.md", "docs/f14.md", "docs/f15.md",
          "docs/f16.md", "docs/f17.md", "docs/f18.md", "docs/f19.md", "docs/f20.md",
          "docs/f21.md", "docs/f22.md", "docs/f23.md", "docs/f24.md", "docs/f25.md",
          "docs/f26.md", "docs/f27.md", "docs/f28.md", "docs/f29.md", "docs/f30.md",
          "docs/f31.md", "docs/f32.md", "docs/f33.md", "docs/f34.md", "docs/f35.md",
          "docs/f36.md", "docs/f37.md", "docs/f38.md", "docs/f39.md", "docs/f40.md",
          "docs/f41.md", "docs/f42.md", "docs/f43.md", "docs/f44.md", "docs/f45.md",
          "docs/f46.md", "docs/f47.md", "docs/f48.md", "docs/f49.md", "docs/f50.md",
          "docs/f51.md", "docs/f52.md", "docs/f53.md", "docs/f54.md", "docs/f55.md",
          "docs/f56.md", "docs/f57.md", "docs/f58.md", "docs/f59.md", "docs/f60.md",
          "docs/f61.md", "docs/f62.md", "docs/f63.md", "docs/f64.md", "docs/f65.md">>
  IN
  {<<>>} \union {<<[rel |-> "docs/api.md", md |-> md]>> : md \in Docs}
         \union {<<[rel |-> "docs/api.md", md |-> md],
                   [rel |-> "docs/faq.md", md |-> md]>> :
                    md \in {JoinLines(<<<<"#", " ", "A">>, <<"x">>>>)}}
         \union {[f \in 1..(BATCH_SIZE + 1) |->
                    [rel |-> names[f],
                     md |-> JoinLines(<<<<"#", " ", "B">>,
                                        IF f % 2 = 1 THEN <<"x">>
                                        ELSE <<"#", "x">>>>)]]}

BuildVecs == {<<1, 0>>, <<0, 1>>}

\* the texts chunkText is called with
ChunkerTexts == UNION {[1..n -> {"a", "b", "\n"}] : n \in 0..MaxTextLen}

\* the payloads of the concurrent calls: two searches that differ in topK, a
\* blank query, and an id that is in the index twice
ConcPayloads ==
  {JStr(<<"a">>), Obj(JStr(<<"a">>), Absent, JNum("fin", 2), Absent),
   JStr(<<" ">>), Obj(Absent, Absent, Absent, JStr(<<"a">>))}

\* the bodies of POST /search: a query that names the retry topic, the
\* authentication topic, both or none, an empty query and no query, with no
\* topK, a topK of 1 and a topK that is no integer
HttpBodies ==
  {Obj(query, Absent, topK, Absent) :
     query \in {JStr(KwRetry), JStr(KwAuth), JStr(KwAuth \o KwRetry),
                JStr(<<"a">>), JStr(<<>>), Absent},
     topK \in {Absent, JNum("fin", 2), JNum("fin", 3)}}

\* the indexes of the HTTP specification: two chunks whose headings hold the
\* substrings of no rule, of one rule, of two rules of one family, and of
\* rules of both families
HttpIndexes ==
  LET headings == {<<"Q", "1">>, KwRetry, KwBackoff \o KwRetry, KwBackoff,
                   KwPostOrders, KwOAuth, KwAuth, KwOAuth \o KwRetry,
                   KwPostOrders \o KwAuth}
  IN {[model |-> "text-embedding-3-large",
       chunks |-> <<ChunkOf(IdAt(1), "docs/api.md", h1, <<1, 0>>),
                    ChunkOf(IdAt(2), "docs/faq.md", h2, <<1, 1>>)>>] :
        h1 \in headings, h2 \in headings}

\* an entry of items
Item(sku, quantity, unitPrice) ==
  JObj([sku |-> JStr(sku), quantity |-> JNum("fin", 2 * quantity),
        unitPrice |-> JNum("fin", 2 * unitPrice)])

OrderBody(customerId, currency, items, sku) ==
  JObj([customerId |-> customerId, currency |-> currency, items |-> items,
        sku |-> sku])

\* the bodies of the order specification: no body, the body of the API
\* document, and bodies that differ from it in customerId, in currency, in a
\* field of the entry of items, and in a top-level property named like a
\* field of the entries
OrderBodies ==
  LET cus1 == JStr(<<"c", "1">>)
      jpy == JStr(<<"J", "P", "Y">>)
      one == JList(<<Item(<<"S", "1">>, 1, 100)>>)
      two == JList(<<Item(<<"S", "1">>, 2, 100)>>)
  IN {Absent,
      OrderBody(cus1, jpy, one, Absent),
      OrderBody(JStr(<<"c", "2">>), jpy, one, Absent),
      OrderBody(cus1, Absent, one, Absent),
      OrderBody(cus1, jpy, two, Absent),
      OrderBody(cus1, jpy, JList(<<Item(<<"S", "2">>, 1, 100)>>), JStr(<<"S", "1">>))}

\* the Idempotency-Key headers of the order specification
OrderHeaders == {JStr(<<"k", "1">>), JStr(<<"k", "2">>)}

\* the Idempotency-Key headers of the key specification: none, blank ones,
\* one character of every kind the class names, a character outside the
\* class, white space around and inside a key, a repeated header, and keys
\* around IDEMPOTENCY_KEY_MAX characters
KeyHeaders ==
  LET Repeat(ch, n) == [i \in 1..n |-> ch]
  IN
  {Absent, JStr(<<>>), JStr(<<"\t", " ">>)}
  \union {JStr(<<ch>>) : ch \in {"a", "Z", "7", "-", "_", ".", "!"}}
  \union {JStr(<<"a", " ", "b">>), JStr(<<" ", "k", "-", "1", "\n">>),
           JList(<<JStr(<<"k", "1">>), JStr(<<"!">>)>>)}
  \union {JStr(Repeat("x", n)) :
            n \in {IDEMPOTENCY_KEY_MAX, IDEMPOTENCY_KEY_MAX + 1}}
  \union {JStr(<<" ">> \o Repeat("x", IDEMPOTENCY_KEY_MAX) \o <<" ">>),
           JStr(Repeat("x", IDEMPOTENCY_KEY_MAX - 1) \o <<"!">>)}

KeyBodies == {OrderBody(JStr(<<"c", "1">>), Absent, Absent, Absent)}

\* the values a failed embedding call throws: an Error with a message, an
\* Error with an empty message, and a thrown value that has no message
Thrown ==
  {[hasMessage |-> TRUE, message |-> "429 rate limit", str |-> "Error: 429 rate limit"],
   [hasMessage |-> TRUE, message |-> "", str |-> "Error"],
   [hasMessage |-> FALSE, message |-> "", str |-> "aborted"]}

----------------------------------------------------------------------------
(* Actions *)

\* a search tool call arrives with a payload of P and runs to its await, or
\* to its early return
SearchStart(c, P) ==
  /\ calls[c].pc = "idle"
  /\ \E raw \in P : calls' = [calls EXCEPT ![c] = SearchBegin(raw)]
  /\ UNCHANGED <<index, otherVars>>

\* the embedding provider answers with a vector of V
EmbedResolve(c, V) ==
  /\ calls[c].pc = "awaitEmbed"
  /\ \E qEmb \in V : calls' = [calls EXCEPT ![c] = SearchFinish(calls[c], qEmb)]
  /\ UNCHANGED <<index, otherVars>>

\* the embedding call fails
EmbedReject(c) ==
  /\ calls[c].pc = "awaitEmbed"
  /\ \E e \in Thrown : calls' = [calls EXCEPT ![c] = SearchCatch(calls[c], e)]
  /\ UNCHANGED <<index, otherVars>>

\* a fetch tool call arrives with a payload of P and runs to its return
Fetch(c, P) ==
  /\ calls[c].pc = "idle"
  /\ \E raw \in P : calls' = [calls EXCEPT ![c] = FetchHandler(raw)]
  /\ UNCHANGED <<index, otherVars>>

\* the response is delivered; the handler's locals are gone
Reply(c) ==
  /\ calls[c].pc = "done"
  /\ calls' = [calls EXCEPT ![c] = IdleCall]
  /\ UNCHANGED <<index, otherVars>>

\* a POST /search arrives with a body of B and runs to its await, or to the
\* error of Body.parse
HttpSearchStart(c, B) ==
  /\ calls[c].pc = "idle"
  /\ \E body \in B : calls' = [calls EXCEPT ![c] = HttpSearchBegin(body)]
  /\ UNCHANGED <<index, otherVars>>

\* the embedding provider answers the HTTP server with a vector of V
HttpEmbedResolve(c, V) ==
  /\ calls[c].pc = "awaitEmbed"
  /\ \E qEmb \in V :
       calls' = [calls EXCEPT ![c] = HttpSearchFinish(calls[c], qEmb)]
  /\ UNCHANGED <<index, otherVars>>

\* the embedding call of the HTTP server fails: the handler rejects and the
\* framework answers with status 500
HttpEmbedReject(c) ==
  /\ calls[c].pc = "awaitEmbed"
  /\ \E e \in Thrown :
       calls' = [calls EXCEPT ![c] =
                   [@ EXCEPT !.pc = "done", !.thrown = e,
                             !.resp = [isError |-> TRUE,
                                       body |-> [statusCode |-> 500]]]]
  /\ UNCHANGED <<index, otherVars>>

\* main of the build script starts: it checks OPENAI_API_KEY and lists the
\* files of docs/
BuildStart(F) ==
  /\ build.pc = "idle"
  /\ \E hasKey \in BOOLEAN, files \in F :
       build' = IF ~hasKey \/ files = <<>>
                THEN [IdleBuild EXCEPT !.pc = "failed"]
                ELSE [IdleBuild EXCEPT !.pc = "reading", !.files = files]
  /\ UNCHANGED <<index, calls, chunker, orders>>

\* main reads the next file, splits it and pushes its chunks
BuildReadFile ==
  /\ build.pc = "reading"
  /\ build' =
       LET n == build.read + 1
           b == [build EXCEPT !.read = n,
                              !.chunks = @ \o ChunksOfFile(build.files[n])]
       IN IF n = Len(build.files) THEN [b EXCEPT !.pc = "embedding"] ELSE b
  /\ UNCHANGED <<index, calls, chunker, orders>>

\* faulty variant of BuildEmbedBatch: the vectors of a batch are paired with
\* its chunks from the end
BuildEmbedBatch_reversed(V) ==
  /\ build.pc = "embedding"
  /\ build.i < Len(build.chunks)
  /\ LET batch == Slice(build.chunks, build.i,
                         Min(Len(build.chunks), build.i + BATCH_SIZE))
         input == [j \in 1..Len(batch) |-> batch[j].text]
     IN \E vectorOf \in [{input[j] : j \in 1..Len(input)} -> V] :
          LET embeddings == [j \in 1..Len(input) |-> vectorOf[input[j]]]
          IN build' = [build EXCEPT
                         !.i = @ + BATCH_SIZE,
                         !.requests = Append(@, [input |-> input,
                                                 output |-> embeddings]),
                         !.indexed = @ \o
                           [j \in 1..Len(batch) |->
                              [id |-> batch[j].id, text |-> batch[j].text,
                               meta |-> batch[j].meta,
                               embedding |->
                                 embeddings[Len(batch) + 1 - j]]]]
  /\ UNCHANGED <<index, calls, chunker, orders>>

\* main embeds the next batch of at most BATCH_SIZE chunks: embedBatch sends
\* the texts of the batch, and the provider answers with one vector of V for
\* each text, in the order of its input (the vector is computed from the
\* text)
BuildEmbedBatch(V) ==
  /\ build.pc = "embedding"
  /\ build.i < Len(build.chunks)
  /\ LET batch == Slice(build.chunks, build.i,
                         Min(Len(build.chunks), build.i + BATCH_SIZE))
         input == [j \in 1..Len(batch) |-> batch[j].text]
     IN \E vectorOf \in [{input[j] : j \in 1..Len(input)} -> V] :
          LET embeddings == [j \in 1..Len(input) |-> vectorOf[input[j]]]
          IN build' = [build EXCEPT
                         !.i = @ + BATCH_SIZE,
                         !.requests = Append(@, [input |-> input,
                                                 output |-> embeddings]),
                         !.indexed = @ \o
                           [j \in 1..Len(batch) |->
                              [id |-> batch[j].id, text |-> batch[j].text,
                               meta |-> batch[j].meta,
                               embedding |-> embeddings[j]]]]
  /\ UNCHANGED <<index, calls, chunker, orders>>

\* the embedding call of main fails: main rejects and the process exits
BuildEmbedFail ==
  /\ build.pc = "embedding"
  /\ build.i < Len(build.chunks)
  /\ build' = [build EXCEPT !.pc = "failed"]
  /\ UNCHANGED <<index, calls, chunker, orders>>

\* main writes artifacts/index.json
BuildWrite ==
  /\ build.pc = "embedding"
  /\ ~(build.i < Len(build.chunks))
  /\ build' = [build EXCEPT !.pc = "written", !.written = TRUE,
                            !.out = [model |-> EMBEDDING_MODEL,
                                     chunks |-> build.indexed]]
  /\ UNCHANGED <<index, calls, chunker, orders>>

\* chunkText is called with a text of T, maxChars of M and overlap of O
ChunkCall(T, M, O) ==
  /\ chunker.pc = "idle"
  /\ \E text \in T, maxChars \in M, overlap \in O :
       chunker' = ChunkerEntry(text, maxChars, overlap)
  /\ UNCHANGED <<index, calls, build, orders>>

\* the loop of chunkText runs once more (the model follows it for
\* MaxWindows windows)
ChunkIterate ==
  /\ chunker.pc = "loop"
  /\ Len(chunker.chunks) < MaxWindows
  /\ chunker' = ChunkerIterate(chunker)
  /\ UNCHANGED <<index, calls, build, orders>>

\* chunkText returns its chunks
ChunkReturn ==
  /\ chunker.pc = "returned"
  /\ chunker' = IdleChunker
  /\ UNCHANGED <<index, calls, build, orders>>

\* a POST /v1/orders with a header of H and a body of B is handled, dt of D
\* after the request before it (the model follows MaxRequests requests)
Post(H, B, D) ==
  /\ Len(orders.log) < MaxRequests
  /\ \E header \in H, reqBody \in B, dt \in D :
       orders' = PostOrders([orders EXCEPT !.now = @ + dt], header, reqBody)
  /\ UNCHANGED <<index, calls, build, chunker>>

----------------------------------------------------------------------------
(* Specifications *)

\* the service with one call at a time, over every payload shape
Init ==
  /\ index \in ServiceIndexes
  /\ calls = <<IdleCall>>
  /\ build = IdleBuild
  /\ chunker = IdleChunker
  /\ orders = NoOrders

Next ==
  \/ \E c \in DOMAIN calls : SearchStart(c, Payloads)
  \/ \E c \in DOMAIN calls : EmbedResolve(c, ServiceVecs)
  \/ \E c \in DOMAIN calls : EmbedReject(c)
  \/ \E c \in DOMAIN calls : Fetch(c, Payloads)
  \/ \E c \in DOMAIN calls : Reply(c)

Spec == Init /\ [][Next]_vars

\* the service over every small index, with a few payloads
InitRank ==
  /\ index \in RankIndexes
  /\ calls = <<IdleCall>>
  /\ build = IdleBuild
  /\ chunker = IdleChunker
  /\ orders = NoOrders

NextRank ==
  \/ \E c \in DOMAIN calls : SearchStart(c, RankPayloads)
  \/ \E c \in DOMAIN calls : EmbedResolve(c, RankVecs)
  \/ \E c \in DOMAIN calls : EmbedReject(c)
  \/ \E c \in DOMAIN calls : Fetch(c, RankPayloads)
  \/ \E c \in DOMAIN calls : Reply(c)

SpecRank == InitRank /\ [][NextRank]_vars

\* the service over one-chunk indexes, with every pair of a query vector and
\* a chunk embedding
InitSim ==
  /\ index \in SimIndexes
  /\ calls = <<IdleCall>>
  /\ build = IdleBuild
  /\ chunker = IdleChunker
  /\ orders = NoOrders

NextSim ==
  \/ \E c \in DOMAIN calls : SearchStart(c, SimPayloads)
  \/ \E c \in DOMAIN calls : EmbedResolve(c, SimVecs)
  \/ \E c \in DOMAIN calls : EmbedReject(c)
  \/ \E c \in DOMAIN calls : Fetch(c, SimPayloads)
  \/ \E c \in DOMAIN calls : Reply(c)

SpecSim == InitSim /\ [][NextSim]_vars

\* the service with MaxCalls calls in flight at once
InitConc ==
  /\ index \in ServiceIndexes
  /\ calls = [c \in 1..MaxCalls |-> IdleCall]
  /\ build = IdleBuild
  /\ chunker = IdleChunker
  /\ orders = NoOrders

NextConc ==
  \/ \E c \in DOMAIN calls : SearchStart(c, ConcPayloads)
  \/ \E c \in DOMAIN calls : EmbedResolve(c, ServiceVecs)
  \/ \E c \in DOMAIN calls : EmbedReject(c)
  \/ \E c \in DOMAIN calls : Fetch(c, ConcPayloads)
  \/ \E c \in DOMAIN calls : Reply(c)

SpecConc == InitConc /\ [][NextConc]_vars

\* POST /search of the HTTP server, one request at a time
InitHttp ==
  /\ index \in HttpIndexes
  /\ calls = <<IdleCall>>
  /\ build = IdleBuild
  /\ chunker = IdleChunker
  /\ orders = NoOrders

NextHttp ==
  \/ \E c \in DOMAIN calls : HttpSearchStart(c, HttpBodies)
  \/ \E c \in DOMAIN calls : HttpEmbedResolve(c, {<<1, 0>>, <<-1, 1>>})
  \/ \E c \in DOMAIN calls : HttpEmbedReject(c)
  \/ \E c \in DOMAIN calls : Reply(c)

SpecHttp == InitHttp /\ [][NextHttp]_vars

\* no retrieval call in flight, an empty index, and nothing built or ordered
Quiet ==
  /\ index = [model |-> EMBEDDING_MODEL, chunks |-> <<>>]
  /\ calls = <<IdleCall>>
  /\ build = IdleBuild
  /\ chunker = IdleChunker
  /\ orders = NoOrders

\* the order service over a few keys and bodies
NextOrders == Post(OrderHeaders, OrderBodies, {0, 1})

\* the order service over the shapes of the Idempotency-Key header
NextKeys == Post(KeyHeaders, KeyBodies, {1})

\* one run of the build script

NextBuild ==
  \/ BuildStart(BuildFileLists)
  \/ BuildReadFile
  \/ BuildEmbedBatch(BuildVecs)
  \/ BuildEmbedFail
  \/ BuildWrite

SpecBuild == Quiet /\ [][NextBuild]_vars

\* calls of chunkText, one at a time, with maxChars in 1..MaxParam and
\* overlap in 0..MaxParam

NextChunk ==
  \/ ChunkCall(ChunkerTexts, 1..MaxParam, 0..MaxParam)
  \/ ChunkIterate
  \/ ChunkReturn

SpecChunk == Quiet /\ [][NextChunk]_vars

\* chunkText runs on once it is called: its loop is synchronous code
SpecChunkFair == SpecChunk /\ WF_vars(ChunkIterate)

SpecOrders == Quiet /\ [][NextOrders]_vars

SpecKeys == Quiet /\ [][NextKeys]_vars

\* the order service over a valid key, a missing key and a key with a
\* character that is not allowed, with two bodies that differ in customerId
NextFrame ==
  Post({JStr(<<"k", "1">>), Absent, JStr(<<"!">>)},
       {OrderBody(JStr(<<"c", "1">>), Absent, Absent, Absent),
        OrderBody(JStr(<<"c", "2">>), Absent, Absent, Absent)}, {1})

SpecFrame == Quiet /\ [][NextFrame]_vars

----------------------------------------------------------------------------
(* Vocabulary of the properties *)

Slots == DOMAIN calls

\* call c is a search (a fetch) that has started
IsSearch(c) == calls[c].op = "search"
IsFetch(c) == calls[c].op = "fetch"

\* the response of c is the tagged error `tag`
RespError(c, tag) ==
  /\ calls[c].pc = "done"
  /\ calls[c].resp.isError
  /\ "error" \in DOMAIN calls[c].resp.body
  /\ calls[c].resp.body.error = tag

\* the response of c is a success carrying a result list
RespResults(c) ==
  /\ calls[c].pc = "done"
  /\ ~calls[c].resp.isError
  /\ "results" \in DOMAIN calls[c].resp.body

\* a string with no character other than whitespace
IsBlank(s) == \A i \in 1..Len(s) : s[i] = " "

\* one step of the envelope rule: arguments first, else input, else stay
EnvelopeStep(x) ==
  IF x.t = "obj" /\ x.f.arguments # Absent THEN x.f.arguments
  ELSE IF x.t = "obj" /\ x.f.input # Absent THEN x.f.input
  ELSE x

\* the envelope rule applied until it stays
Innermost(x) ==
  LET RECURSIVE Go(_)
      Go(y) == IF EnvelopeStep(y) = y THEN y ELSE Go(EnvelopeStep(y))
  IN Go(x)

\* the number of envelopes around x
Depth(x) ==
  LET RECURSIVE Go(_)
      Go(y) == IF EnvelopeStep(y) = y THEN 0 ELSE 1 + Go(EnvelopeStep(y))
  IN Go(x)

IsStrField(v, key) == v.t = "obj" /\ v.f[key].t = "str"

\* a string-valued query or q can be located in the unwrapped value v
QueryLocated(v) ==
  v.t = "str" \/ IsStrField(v, "query") \/ IsStrField(v, "q")

\* the query text located in v
LocatedQuery(v) ==
  IF v.t = "str" THEN v.s
  ELSE IF IsStrField(v, "query") THEN v.f.query.s
  ELSE v.f.q.s

\* the payload of c carries no usable query
NoUsableQuery(c) ==
  LET v == Innermost(calls[c].raw)
  IN ~QueryLocated(v) \/ IsBlank(LocatedQuery(v))

\* an id can be located in the unwrapped value v
IdLocated(v) == v.t = "str" \/ IsStrField(v, "id")

LocatedId(v) == IF v.t = "str" THEN v.s ELSE v.f.id.s

NoUsableId(c) ==
  LET v == Innermost(calls[c].raw)
  IN ~IdLocated(v) \/ IsBlank(LocatedId(v))

----------------------------------------------------------------------------
(* Properties *)

\* C1: a search whose payload has no string-valued query or q after
\* unwrapping, or whose located query is blank, ends at once with the tagged
\* error invalid_query: no embedding is requested and nothing is ranked.
C1_InvalidQueryRejected ==
  \A c \in Slots :
    IsSearch(c) /\ NoUsableQuery(c) =>
      /\ RespError(c, "invalid_query")
      /\ calls[c].embedCalls = 0
      /\ calls[c].scored = <<>>

\* C1 witness: a rejected search whose payload is an envelope around an
\* object with a blank q and no query
C1_Witness ==
  \E c \in Slots :
    /\ IsSearch(c) /\ RespError(c, "invalid_query")
    /\ Depth(calls[c].raw) = 2
    /\ IsStrField(Innermost(calls[c].raw), "q")
    /\ ~IsStrField(Innermost(calls[c].raw), "query")
    /\ Innermost(calls[c].raw).f.q.s = <<" ">>

\* C2: validation precedes the embedding call: a search that answers
\* invalid_query has issued no embedding request, and every embedding
\* request that was issued carries a validated, non-blank query.
C2_ValidateBeforeEmbed ==
  \A c \in Slots :
    /\ RespError(c, "invalid_query") => calls[c].embedCalls = 0
    /\ calls[c].embedCalls > 0 =>
         /\ ~NoUsableQuery(c)
         /\ calls[c].embedInput # <<>>
         /\ ~IsBlank(calls[c].embedInput)

\* C2 witness: a search rejected as invalid_query with no embedding call,
\* for a whitespace-only bare string
C2_Witness ==
  \E c \in Slots :
    /\ RespError(c, "invalid_query")
    /\ calls[c].raw = JStr(<<" ", " ">>)
    /\ calls[c].embedCalls = 0

\* C3: a search with a usable query issues exactly one embedding call, for
\* the trimmed query and the model recorded in the loaded index, whatever the
\* number of chunks and the topK.
C3_OneEmbeddingCall ==
  \A c \in Slots :
    IsSearch(c) /\ ~NoUsableQuery(c) =>
      /\ calls[c].embedCalls = 1
      /\ calls[c].embedModel = index.model
      /\ calls[c].embedInput = Trim(LocatedQuery(Innermost(calls[c].raw)))

\* C3 witness: a finished search over three chunks with topK 2 that made its
\* one call with the index's model
C3_Witness ==
  \E c \in Slots :
    /\ RespResults(c)
    /\ Len(index.chunks) = 3
    /\ calls[c].topK = 2
    /\ index.model = "text-embedding-3-small"
    /\ calls[c].embedModel = "text-embedding-3-small"
    /\ calls[c].embedCalls = 1

\* C4: when the embedding call of a search fails, the response is the tagged
\* error search_failed with the message of the failure, and carries no
\* result list.
C4_EmbedFailureSurfaced ==
  \A c \in Slots :
    IsSearch(c) /\ calls[c].pc = "done" /\ calls[c].thrown # NoThrow =>
      /\ RespError(c, "search_failed")
      /\ calls[c].resp.body.message =
           (IF calls[c].thrown.hasMessage
            THEN calls[c].thrown.message ELSE calls[c].thrown.str)
      /\ "results" \notin DOMAIN calls[c].resp.body

\* C4 witness: a search answered search_failed with the provider's message
C4_Witness ==
  \E c \in Slots :
    /\ IsSearch(c) /\ calls[c].thrown # NoThrow
    /\ RespError(c, "search_failed")
    /\ calls[c].resp.body.message = "429 rate limit"

\* C5: a fetch with a non-blank id that no chunk of the index has answers
\* the not-found record, and the response is not marked as an error.
C5_MissIsNotAnError ==
  \A c \in Slots :
    (/\ IsFetch(c) /\ calls[c].pc = "done" /\ ~NoUsableId(c)
     /\ \A i \in 1..Len(index.chunks) : index.chunks[i].id # calls[c].id)
    =>
      /\ calls[c].resp.body =
           [id |-> calls[c].id, title |-> <<"NOT_FOUND">>, text |-> "",
            url |-> <<DOC_BASE_URL>>, metadata |-> [error |-> "not_found"]]
      /\ ~calls[c].resp.isError

\* C6: both normalisers unwrap by the fixed rule, applied until it stays:
\* an object with an `arguments` key is replaced by that key's value, else an
\* object with an `input` key by that key's value; at any depth and mix.
C6_UnwrapOrder ==
  \A c \in Slots :
    IsSearch(c) \/ IsFetch(c) => calls[c].v = Innermost(calls[c].raw)

\* C6 witness: a search of a payload with both keys at the top whose
\* `arguments` value is an `input` envelope around an object
C6_Witness ==
  \E c \in Slots :
    /\ IsSearch(c)
    /\ calls[c].raw.t = "obj"
    /\ calls[c].raw.f.arguments.t = "obj"
    /\ calls[c].raw.f.input # Absent
    /\ calls[c].raw.f.arguments.f.input.t = "obj"
    /\ calls[c].v = calls[c].raw.f.arguments.f.input
    /\ calls[c].v # calls[c].raw.f.input

\* C7: from the unwrapped value, a bare string is the query and topK is 8; an
\* object gives its string-valued query, else its string-valued q; query
\* wins over q.
C7_QueryPreferredOverQ ==
  \A c \in Slots :
    IsSearch(c) =>
      LET v == calls[c].v
      IN /\ v.t = "str" => calls[c].query = v.s /\ calls[c].topK = 8
         /\ IsStrField(v, "query") => calls[c].query = v.f.query.s
         /\ IsStrField(v, "q") /\ ~IsStrField(v, "query") =>
              calls[c].query = v.f.q.s

\* C7 witness: a search of an object whose query and q are different strings
C7_Witness ==
  \E c \in Slots :
    /\ IsSearch(c)
    /\ IsStrField(calls[c].v, "query") /\ IsStrField(calls[c].v, "q")
    /\ calls[c].v.f.query.s = <<"a">>
    /\ calls[c].v.f.q.s = <<" ", "a">>
    /\ calls[c].query = <<"a">>

\* max(1, min(20, trunc(h/2))), stated by its bounds
ClampedTopK(h) ==
  CHOOSE k \in 1..20 :
    \/ h < 2 /\ k = 1
    \/ h >= 40 /\ k = 20
    \/ 2 * k <= h /\ h < 2 * k + 2

\* the topK field of the unwrapped value
TopKField(v) == IF v.t = "obj" THEN v.f.topK ELSE Absent

IsFiniteNum(k) == k.t = "num" /\ k.kind = "fin"

\* C8 as stated: for every payload the topK of normalizeSearch is in 1..20, a
\* finite numeric topK field t gives max(1, min(20, trunc(t))), and any other
\* topK field gives 8.
C8_TopKOfEveryPayload ==
  \A c \in Slots :
    IsSearch(c) =>
      LET k == TopKField(calls[c].v)
      IN /\ calls[c].topK \in 1..20
         /\ calls[c].topK =
              (IF IsFiniteNum(k) THEN ClampedTopK(k.h) ELSE 8)

\* C8 amended: the topK is in 1..20 for every payload; a finite numeric topK
\* field t gives max(1, min(20, trunc(t))) when the unwrapped object supplies
\* a string-valued query or q; every other payload gives 8.
C8_TopKClamped ==
  \A c \in Slots :
    IsSearch(c) =>
      LET v == calls[c].v
          k == TopKField(v)
      IN /\ calls[c].topK \in 1..20
         /\ calls[c].topK =
              (IF IsFiniteNum(k) /\ (IsStrField(v, "query") \/ IsStrField(v, "q"))
               THEN ClampedTopK(k.h) ELSE 8)

\* C8 witness: topK 2.5 is truncated to 2 for an object with a query
C8_Witness ==
  \E c \in Slots :
    /\ IsSearch(c)
    /\ IsStrField(calls[c].v, "query")
    /\ calls[c].v.f.topK = JNum("fin", 5)
    /\ calls[c].topK = 2

\* C9: normalizeFetch unwraps by the same rule; a bare string or an object's
\* string-valued id is the id (trimmed by the handler); every other payload,
\* and a blank id, is answered invalid_id without a lookup in the index.
C9_FetchIdOrInvalid ==
  \A c \in Slots :
    IsFetch(c) =>
      LET v == Innermost(calls[c].raw)
      IN /\ calls[c].v = v
         /\ NoUsableId(c) =>
              RespError(c, "invalid_id") /\ calls[c].lookups = 0
         /\ ~NoUsableId(c) =>
              /\ calls[c].id = Trim(LocatedId(v))
              /\ ~RespError(c, "invalid_id")
              /\ calls[c].lookups = 1

\* C9 witness: a whitespace-only id inside an envelope is answered invalid_id
C9_Witness ==
  \E c \in Slots :
    /\ IsFetch(c)
    /\ Depth(calls[c].raw) = 1
    /\ calls[c].v = JStr(<<" ">>)
    /\ RespError(c, "invalid_id")
    /\ calls[c].lookups = 0

\* x > y for two weighted scores (false when either is NaN)
Greater(x, y) == ~Minus(x, y).nan /\ Minus(x, y).num > 0

\* C10: the result list of a search has at most topK entries, one per kept
\* scored entry, and no entry has a greater weighted score than an entry
\* before it.
C10_AtMostTopKDescending ==
  \A c \in Slots :
    RespResults(c) =>
      LET results == calls[c].resp.body.results
          scored == calls[c].scored
      IN /\ Len(results) <= calls[c].topK
         /\ Len(results) = Min(calls[c].topK, Len(index.chunks))
         /\ Len(scored) = Len(results)
         /\ \A i \in 1..Len(results) :
              results[i].id = index.chunks[scored[i].chunk].id
         /\ \A i, j \in 1..Len(scored) :
              i < j => ~Greater(scored[j].weighted, scored[i].weighted)

\* C10 witness: topK 2 cuts a three-chunk index, and the last chunk of the
\* index is ranked first
C10_Witness ==
  \E c \in Slots :
    /\ RespResults(c)
    /\ Len(index.chunks) = 3
    /\ calls[c].topK = 2
    /\ Len(calls[c].resp.body.results) = 2
    /\ calls[c].scored[1].chunk = 3
    /\ Greater(calls[c].scored[1].weighted, calls[c].scored[2].weighted)

\* x and y are the same number (or are both NaN)
SameNumber(x, y) ==
  \/ x.nan /\ y.nan
  \/ ~Minus(x, y).nan /\ Minus(x, y).num = 0

\* the key raw * sourceWeight(source) * headingWeight(heading, query) of the
\* chunk of a scored entry, in ten-thousandths
ThreeFactorKey(entry, query) ==
  LET meta == index.chunks[entry.chunk].meta
  IN Times(Times(entry.score, SourceWeight(meta.source)),
           HeadingWeight(meta.heading, query))

\* C11: the ordering key of every chunk a search of the search tool ranks is
\* raw * sourceWeight(source) * headingWeight(heading, query).
C11_ThreeFactorKey ==
  \A c \in Slots :
    RespResults(c) =>
      \A i \in 1..Len(calls[c].scored) :
        SameNumber(Times(calls[c].scored[i].weighted, 100),
                   ThreeFactorKey(calls[c].scored[i], calls[c].q))

\* the rank of chunk i in the scored entries of call c, 0 when it was cut off
RankOf(c, i) ==
  LET at == {p \in 1..Len(calls[c].scored) : calls[c].scored[p].chunk = i}
  IN IF at = {} THEN 0 ELSE CHOOSE p \in at : TRUE

\* the raw similarity of chunk i to the query vector of call c
RawOf(c, i) == CosineSim(calls[c].qEmb, index.chunks[i].embedding)

\* chunks i (of docs/api.md, the source weighted 1.15) and j (of docs/faq.md,
\* the source weighted 0.95) have the same raw similarity in the search c
EqualRawPair(c, i, j) ==
  /\ index.chunks[i].meta.source = "docs/api.md"
  /\ index.chunks[j].meta.source = "docs/faq.md"
  /\ ~RawOf(c, i).nan
  /\ SameNumber(RawOf(c, i), RawOf(c, j))

\* chunk i ranks before chunk j in the search c
RanksBefore(c, i, j) ==
  RankOf(c, j) # 0 => (RankOf(c, i) # 0 /\ RankOf(c, i) < RankOf(c, j))

\* C12 as stated: of two chunks with equal raw similarity, one from a source
\* weighted 1.15 and one from a source weighted 0.95, the first ranks before
\* the second, whatever the common raw similarity is.
C12_HeavierSourceFirst ==
  \A c \in Slots :
    RespResults(c) =>
      \A i, j \in 1..Len(index.chunks) :
        EqualRawPair(c, i, j) => RanksBefore(c, i, j)

\* C12: of two chunks with equal and positive raw similarity, one from a
\* source weighted 1.15 and one from a source weighted 0.95, the first ranks
\* before the second, wherever the two are in the index.
C12_HeavierSourceFirstWhenPositive ==
  \A c \in Slots :
    RespResults(c) =>
      \A i, j \in 1..Len(index.chunks) :
        (EqualRawPair(c, i, j) /\ RawOf(c, i).num > 0) => RanksBefore(c, i, j)

\* C12 witness: the 0.95 chunk is before the 1.15 chunk in the index, their
\* raw similarity is equal and positive, and the 1.15 chunk is ranked first
C12_Witness ==
  \E c \in Slots :
    /\ RespResults(c)
    /\ \E i, j \in 1..Len(index.chunks) :
         /\ j < i
         /\ EqualRawPair(c, i, j)
         /\ RawOf(c, i).num > 0
         /\ RankOf(c, i) # 0
         /\ RankOf(c, i) < RankOf(c, j)

\* the search c has received the vector of its query from the provider
Embedded(c) ==
  /\ IsSearch(c)
  /\ calls[c].pc = "done"
  /\ calls[c].embedCalls = 1
  /\ calls[c].thrown = NoThrow

\* the Euclidean norm of v is zero
IsZeroVector(v) == \A i \in 1..Len(v) : v[i] = 0

\* C13: the similarity of two vectors of equal length is 0, not NaN and not
\* an error, when either of them has norm zero.
C13_ZeroNormScoresZero ==
  \A c \in Slots :
    Embedded(c) =>
      /\ RespResults(c)
      /\ \A i \in 1..Len(calls[c].scored) :
           LET emb == index.chunks[calls[c].scored[i].chunk].embedding
           IN (/\ Len(emb) = Len(calls[c].qEmb)
               /\ (IsZeroVector(emb) \/ IsZeroVector(calls[c].qEmb)))
              => calls[c].scored[i].score = Num(0, 1)

\* C13 witness: the query vector and the chunk embedding are both the zero
\* vector of two components, and the chunk was scored
C13_Witness ==
  \E c \in Slots :
    /\ Embedded(c)
    /\ calls[c].qEmb = <<0, 0>>
    /\ Len(calls[c].scored) = 1
    /\ index.chunks[1].embedding = <<0, 0>>
    /\ calls[c].scored[1].score = Num(0, 1)

\* C14: a query vector and a chunk embedding of unequal length are signalled
\* as an error, and no score is produced for the pair.
C14_LengthMismatchSignalled ==
  \A c \in Slots :
    (/\ Embedded(c)
     /\ \E i \in 1..Len(index.chunks) :
          Len(index.chunks[i].embedding) # Len(calls[c].qEmb))
    => (calls[c].resp.isError /\ calls[c].scored = <<>>)

\* C15: the ids of the chunks of every index the build writes are pairwise
\* different, also when a document has the same heading text in more than
\* one section.
C15_ChunkIdsUnique ==
  build.written =>
    \A i, j \in 1..Len(build.out.chunks) :
      i # j => build.out.chunks[i].id # build.out.chunks[j].id

\* C16: chunkText does no chunking work with overlap >= maxChars: such a
\* configuration is rejected before the loop is entered.
C16_BadOverlapRejected ==
  chunker.pc = "loop" => chunker.overlap < chunker.maxChars

\* the state call c is in when it runs alone against the index, with the same
\* payload and the same outcome of its embedding request
Alone(c) ==
  IF IsFetch(c) THEN FetchHandler(calls[c].raw)
  ELSE LET begun == SearchBegin(calls[c].raw)
       IN IF begun.pc = "done" \/ calls[c].pc = "awaitEmbed" THEN begun
          ELSE IF calls[c].thrown # NoThrow
               THEN SearchCatch(begun, calls[c].thrown)
               ELSE SearchFinish(begun, calls[c].qEmb)

\* every call that has started is where it would be had it run alone
CallsIsolated ==
  \A c \in Slots : calls[c].pc # "idle" => calls[c] = Alone(c)

\* C17: under every interleaving of search and fetch calls the index is
\* never modified, and every call returns what it returns when it runs
\* alone against the same index.
C17_CallsShareNoState ==
  /\ []CallsIsolated
  /\ [][index' = index]_vars

\* C17 witness: a search with topK 1 has answered while another call, a
\* search with topK 8, is suspended at its embedding request
C17_Witness ==
  \E c, d \in Slots :
    /\ c # d
    /\ RespResults(c)
    /\ calls[c].topK = 1
    /\ Len(calls[c].resp.body.results) = 1
    /\ calls[d].pc = "awaitEmbed"
    /\ calls[d].topK = 8

\* the requests answered so far
Log == orders.log

\* request i created an order
Created(i) == Log[i].uuids > (IF i = 1 THEN 0 ELSE Log[i - 1].uuids)

\* requests i and j carry the same Idempotency-Key header
SameKey(i, j) == Log[i].header = Log[j].header

\* C18: once a POST with a key and a body has returned 201, every later POST
\* with the same key and the same body returns 201 with the same response
\* body, whatever requests came in between.
C18_ReplayIdentical ==
  \A i, j \in 1..Len(Log) :
    (/\ i < j
     /\ Log[i].status = 201
     /\ SameKey(i, j)
     /\ Log[j].reqBody = Log[i].reqBody)
    => (Log[j].status = 201 /\ Log[j].body = Log[i].body)

\* C18 witness: an order is created, the key is then used with another body
\* at a later time, and the first request is then repeated and answered
\* with the first response
C18_Witness ==
  /\ Len(Log) = 3
  /\ Created(1)
  /\ SameKey(1, 2) /\ Log[2].reqBody # Log[1].reqBody /\ Log[2].status = 409
  /\ SameKey(1, 3) /\ Log[3].reqBody = Log[1].reqBody
  /\ Log[3].status = 201
  /\ Log[3].body.createdAt < orders.now
  /\ Log[3].body = Log[1].body

\* C19: a POST with a stored key and a body that differs from the body the
\* key was stored with returns 409 IDEMPOTENCY_CONFLICT, whether the bodies
\* differ in a top-level field or in a field of an entry of items.
C19_DifferentBodyConflicts ==
  \A i, j \in 1..Len(Log) :
    (/\ i < j
     /\ Created(i)
     /\ SameKey(i, j)
     /\ BodyOf(Log[j].reqBody) # BodyOf(Log[i].reqBody))
    => (/\ Log[j].status = 409
        /\ Log[j].body.error.code = "IDEMPOTENCY_CONFLICT")

\* the text of the Idempotency-Key header of request i, without the white
\* space around it ("" when there is no header)
KeyText(i) ==
  LET h == Log[i].header
  IN IF h = Absent THEN <<>>
     ELSE IF h.t = "list" THEN Trim(h.xs[1].s) ELSE Trim(h.s)

\* the characters [A-Za-z0-9-_.]
AllowedKeyChars ==
  UpperLetters \union LowerLetters \union Digits \union {"-", "_", "."}

\* the key of request i is missing or empty, longer than 64 characters, or
\* has a character outside the allowed ones
BadKey(i) ==
  \/ KeyText(i) = <<>>
  \/ Len(KeyText(i)) > 64
  \/ \E p \in 1..Len(KeyText(i)) : KeyText(i)[p] \notin AllowedKeyChars

\* C20: a POST whose key is missing or empty after trimming, longer than 64
\* characters, or has a character outside [A-Za-z0-9-_.] is answered with
\* 400 and creates no order; every key of 1 to 64 allowed characters passes.
C20_KeyChecked ==
  \A i \in 1..Len(Log) :
    IF BadKey(i) THEN Log[i].status = 400 /\ ~Created(i)
    ELSE Log[i].status # 400

\* C20 witness: a key of 64 characters has created an order, and a key of 65
\* characters and a key with a character outside the class were refused
C20_Witness ==
  \E i, j, k \in 1..Len(Log) :
    /\ Len(KeyText(i)) = 64 /\ Log[i].status = 201 /\ Created(i)
    /\ Len(KeyText(j)) = 65 /\ Log[j].status = 400
    /\ KeyText(k) = <<"!">> /\ Log[k].status = 400
    /\ orders.uuids = 1

----------------------------------------------------------------------------
(* C21: headingWeight applies the first rule that fires, and only that *)

\* the rules of headingWeight in the order of the code: the word of the
\* query, the substrings of the heading, the multiplier in hundredths
HeadingRules ==
  <<[word |-> KwRetry, subs |-> {KwRetry}, boost |-> 135],
    [word |-> KwRetry, subs |-> {KwBackoff}, boost |-> 125],
    [word |-> KwRetry, subs |-> {KwPostOrders}, boost |-> 105],
    [word |-> KwAuth, subs |-> {KwOAuth, KwAuth}, boost |-> 125]>>

\* the rules that fire for a heading and a query
Firing(heading, query) ==
  {r \in DOMAIN HeadingRules :
     /\ Includes(query, HeadingRules[r].word)
     /\ \E sub \in HeadingRules[r].subs : Includes(heading, sub)}

\* the multiplier of the first rule that fires, 100 when none does
FirstRuleBoost(heading, query) ==
  LET fire == Firing(heading, query)
  IN IF fire = {} THEN 100
     ELSE HeadingRules[CHOOSE r \in fire : \A o \in fire : r <= o].boost

IsHttpSearch(c) == calls[c].op = "httpSearch"

\* C21: every hit of POST /search carries the key score * sourceWeight *
\* boost, where boost is the multiplier of the first rule of headingWeight
\* that fires for the chunk's heading and the query, and 1.0 when no rule
\* fires; the multipliers of several rules that fire are not combined
C21_FirstRuleOnly ==
  \A c \in Slots :
    (IsHttpSearch(c) /\ calls[c].pc = "done" /\ ~calls[c].resp.isError) =>
      \A i \in DOMAIN calls[c].resp.body.hits :
        LET hit == calls[c].resp.body.hits[i]
        IN SameNumber(hit.weighted,
                      Times(Times(hit.score, HttpSourceWeight(hit.source)),
                            FirstRuleBoost(hit.heading, calls[c].query)))

\* a hit with a score other than 0 for whose heading rules of both families
\* fire
C21_Witness ==
  \E c \in Slots :
    /\ IsHttpSearch(c) /\ calls[c].pc = "done" /\ ~calls[c].resp.isError
    /\ \E i \in DOMAIN calls[c].resp.body.hits :
         LET hit == calls[c].resp.body.hits[i]
         IN /\ ~hit.score.nan /\ hit.score.num # 0
            /\ {1, 4} \subseteq Firing(hit.heading, calls[c].query)
            /\ SameNumber(hit.weighted,
                          Times(Times(hit.score, HttpSourceWeight(hit.source)),
                                135))

----------------------------------------------------------------------------
(* C22: ranking is deterministic, with ties in index order *)

\* search call c has answered with results
Ranked(c) == IsSearch(c) /\ calls[c].pc = "done" /\ ~calls[c].resp.isError

\* the ids of the results of search call c, in order
ResultIds(c) ==
  [i \in DOMAIN calls[c].resp.body.results |-> calls[c].resp.body.results[i].id]

\* entries p < q of the ranking of c have the same weighted score
Tied(c, p, q) ==
  /\ p \in DOMAIN calls[c].scored /\ q \in DOMAIN calls[c].scored /\ p < q
  /\ SameNumber(calls[c].scored[p].weighted, calls[c].scored[q].weighted)

\* C22: in every answered search, chunks with equal weighted score stand in
\* the order of their positions in the index, and two answered searches over
\* the same index with the same query vector, query and topK have the same
\* ids in the same order
C22_StableDeterministic ==
  /\ \A c \in Slots :
       Ranked(c) =>
         \A p, q \in DOMAIN calls[c].scored :
           Tied(c, p, q) => calls[c].scored[p].chunk < calls[c].scored[q].chunk
  /\ \A c, d \in Slots :
       (/\ Ranked(c) /\ Ranked(d)
        /\ calls[c].qEmb = calls[d].qEmb /\ calls[c].q = calls[d].q
        /\ calls[c].topK = calls[d].topK) =>
         ResultIds(c) = ResultIds(d)

\* two answered searches with the same query vector, query and topK, whose
\* rankings hold two chunks of equal weighted score
C22_Witness ==
  \E c, d \in Slots :
    /\ c # d /\ Ranked(c) /\ Ranked(d)
    /\ calls[c].qEmb = calls[d].qEmb /\ calls[c].q = calls[d].q
    /\ calls[c].topK = calls[d].topK
    /\ \E p, q \in DOMAIN calls[c].scored :
         /\ Tied(c, p, q)
         /\ calls[c].scored[p].score.num # 0
         /\ calls[c].scored[p].chunk < calls[c].scored[q].chunk

----------------------------------------------------------------------------
(* C23: the windows of chunkText overlap and cover the block *)

\* the call of chunkText in progress has 0 < overlap < maxChars and a
\* normalized text longer than maxChars
LongBlock ==
  /\ chunker.pc # "idle"
  /\ 0 < chunker.overlap /\ chunker.overlap < chunker.maxChars
  /\ Len(chunker.normalized) > chunker.maxChars

\* where window k starts when the first window starts at 0 and every later
\* one overlapChars before the end of the window before it
RECURSIVE WindowStart(_)
WindowStart(k) ==
  IF k = 1 THEN 0
  ELSE WindowStart(k - 1) + Len(chunker.chunks[k - 1]) - chunker.overlap

WindowEnd(k) == WindowStart(k) + Len(chunker.chunks[k])

\* C23: when chunkText returns for a block longer than maxChars with
\* 0 < overlap < maxChars, window k is the text of the block from
\* WindowStart(k) on, no window is longer than maxChars, consecutive windows
\* share at least overlap characters, every position of the block lies in a
\* window, and the last window ends at the end of the block
C23_WindowsOverlapAndCover ==
  (LongBlock /\ chunker.pc = "returned") =>
    LET n == Len(chunker.chunks)
        len == Len(chunker.normalized)
    IN /\ n >= 2
       /\ \A k \in 1..n :
            /\ chunker.chunks[k] =
                 Slice(chunker.normalized, WindowStart(k), WindowEnd(k))
            /\ Len(chunker.chunks[k]) <= chunker.maxChars
       /\ \A k \in 2..n :
            Min(WindowEnd(k - 1), WindowEnd(k)) - WindowStart(k)
              >= chunker.overlap
       /\ \A pos \in 1..len :
            \E k \in 1..n : WindowStart(k) < pos /\ pos <= WindowEnd(k)
       /\ WindowEnd(n) = len

\* chunkText has returned three windows or more for such a block, whose text
\* holds more than one character
C23_Witness ==
  /\ LongBlock /\ chunker.pc = "returned"
  /\ Len(chunker.chunks) >= 3
  /\ \E i, j \in DOMAIN chunker.normalized :
       chunker.normalized[i] # chunker.normalized[j]

----------------------------------------------------------------------------
(* C30: chunkText terminates *)

\* the call of chunkText in progress has 0 <= overlap < maxChars
ValidCall ==
  /\ chunker.pc # "idle"
  /\ 0 <= chunker.overlap /\ chunker.overlap < chunker.maxChars

CeilDiv(a, b) == (a + b - 1) \div b

\* the windows the loop of chunkText has pushed (a text of at most maxChars
\* characters is returned before the loop)
LoopWindows ==
  IF Len(chunker.normalized) <= chunker.maxChars THEN 0
  ELSE Len(chunker.chunks)

\* the loop has pushed at most ceil(length / (maxChars - overlap)) windows,
\* fewer while it runs, and the last window of a returned call ends the text
WindowBound ==
  ValidCall =>
    LET len == Len(chunker.normalized)
        bound == CeilDiv(len, chunker.maxChars - chunker.overlap)
        n == Len(chunker.chunks)
    IN /\ LoopWindows <= bound
       /\ chunker.pc = "loop" => LoopWindows < bound
       /\ chunker.pc = "returned" =>
            /\ n >= 1
            /\ chunker.chunks[n] =
                 Slice(chunker.normalized, len - Len(chunker.chunks[n]), len)

\* an iteration of the loop ends the call or moves the window start forward
StartIncreases ==
  (ValidCall /\ chunker.pc = "loop") =>
    \/ chunker'.pc = "returned"
    \/ chunker'.pc = "loop" /\ chunker'.start > chunker.start

\* C30: a call of chunkText with 0 <= overlap < maxChars returns: every
\* iteration of its loop moves the window start forward or ends the loop with
\* the window that reaches the end of the text, and the loop pushes at most
\* ceil(length / (maxChars - overlap)) windows
C30_ChunkTextTerminates ==
  /\ []WindowBound
  /\ [][StartIncreases]_vars
  /\ (ValidCall ~> chunker.pc = "returned")

\* a call with 0 <= overlap < maxChars has returned from its loop with as
\* many windows as the bound allows, more than two
C30_Witness ==
  /\ ValidCall /\ chunker.pc = "returned"
  /\ LoopWindows >= 3
  /\ LoopWindows =
       CeilDiv(Len(chunker.normalized), chunker.maxChars - chunker.overlap)

----------------------------------------------------------------------------
(* C24: one chunk for a short block, none for an empty one *)

\* the normalized content of block b
NormalizedOf(b) == Trim(CollapseNewlines(b.content))

\* the chunks expected of the first n files when every block gives one chunk:
\* for each block in order, part 0 with the whole normalized content
RECURSIVE OneChunkPerBlock(_)
OneChunkPerBlock(n) ==
  IF n = 0 THEN <<>>
  ELSE LET blocks == SplitByHeadings(build.files[n].md)
       IN OneChunkPerBlock(n - 1) \o
          [k \in 1..Len(blocks) |->
             [text |-> NormalizedOf(blocks[k]), part |-> 0,
              heading |-> blocks[k].heading, source |-> build.files[n].rel]]

\* the heading lines of the document md
HeadingLines(md) ==
  {i \in DOMAIN SplitLines(md) : MatchHeading(SplitLines(md)[i]).matched}

\* C24: the chunks main has pushed for the files read are, block by block,
\* one chunk with part 0 whose text is the whole normalized content of the
\* block (every block of these documents is shorter than maxChars); a document
\* gives at most one chunk more than it has heading lines, and every chunk
\* text, also in the written index, holds a character that is no white space
C24_OneChunkPerShortBlock ==
  /\ [k \in DOMAIN build.chunks |->
        [text |-> build.chunks[k].text, part |-> build.chunks[k].meta.part,
         heading |-> build.chunks[k].meta.heading,
         source |-> build.chunks[k].meta.source]]
       = OneChunkPerBlock(build.read)
  /\ \A k \in DOMAIN build.chunks :
       Len(build.chunks[k].text) <= DefaultMaxChars
  /\ build.read = 1 =>
       Len(build.chunks) <= Cardinality(HeadingLines(build.files[1].md)) + 1
  /\ \A k \in DOMAIN build.chunks :
       \E i \in DOMAIN build.chunks[k].text :
         ~IsWhitespace(build.chunks[k].text[i])
  /\ \A k \in DOMAIN build.out.chunks :
       \E i \in DOMAIN build.out.chunks[k].text :
         ~IsWhitespace(build.out.chunks[k].text[i])

\* an index is written from a document in which a heading line is followed
\* by no text, and which gave a chunk for another section
C24_Witness ==
  /\ build.written /\ Len(build.files) = 1
  /\ Len(build.out.chunks) >= 1
  /\ Len(build.out.chunks) < Cardinality(HeadingLines(build.files[1].md))

----------------------------------------------------------------------------
(* C25: the build pairs every chunk with the embedding of its own text *)

\* the request of embedBatch that carried chunk i, and the place of the
\* chunk's text in it
BatchOf(i) == ((i - 1) \div BATCH_SIZE) + 1
PlaceOf(i) == ((i - 1) % BATCH_SIZE) + 1

\* C25: entry i of the indexed sequence is chunk i with the vector the
\* provider returned for chunk i's text: the text was sent at place
\* PlaceOf(i) of request BatchOf(i), and the entry's embedding is the vector
\* at that place of the answer; no request carries more than BATCH_SIZE
\* texts, and the written index holds as many entries as there are chunks,
\* in the order of the chunks
C25_ChunkPairedWithOwnVector ==
  /\ Len(build.indexed) <= Len(build.chunks)
  /\ \A r \in DOMAIN build.requests :
       /\ Len(build.requests[r].input) <= BATCH_SIZE
       /\ Len(build.requests[r].output) = Len(build.requests[r].input)
  /\ \A i \in DOMAIN build.indexed :
       LET entry == build.indexed[i]
           chunk == build.chunks[i]
       IN /\ entry.id = chunk.id /\ entry.text = chunk.text
          /\ entry.meta = chunk.meta
          /\ BatchOf(i) \in DOMAIN build.requests
          /\ PlaceOf(i) \in DOMAIN build.requests[BatchOf(i)].input
          /\ build.requests[BatchOf(i)].input[PlaceOf(i)] = chunk.text
          /\ entry.embedding = build.requests[BatchOf(i)].output[PlaceOf(i)]
  /\ build.written =>
       /\ Len(build.out.chunks) = Len(build.chunks)
       /\ build.out.chunks = build.indexed

\* an index of more than BATCH_SIZE chunks, not a multiple of BATCH_SIZE, is
\* written after two requests, the first of which was answered with
\* different vectors for different texts
C25_Witness ==
  /\ build.written
  /\ Len(build.chunks) > BATCH_SIZE /\ Len(build.chunks) % BATCH_SIZE # 0
  /\ Len(build.requests) = 2
  /\ build.indexed[1].embedding # build.indexed[2].embedding

----------------------------------------------------------------------------
(* C29: fields next to an envelope key are ignored *)

\* x is an object with an `arguments` or `input` key
Enveloped(x) == x.t = "obj" /\ (x.f.arguments # Absent \/ x.f.input # Absent)

\* C29: for a payload with an envelope key, the query, topK and id of the
\* call are those of the innermost unwrapped value alone: the query or id
\* located there (empty when none is), the topK of that value (8 when it
\* supplies no query or no finite topK); when no query or id can be located
\* there the call is rejected, whatever stands next to the envelope key
C29_SiblingsIgnored ==
  \A c \in Slots :
    Enveloped(calls[c].raw) =>
      LET inner == Innermost(calls[c].raw)
          k == TopKField(inner)
      IN /\ IsSearch(c) =>
              /\ calls[c].query =
                   (IF QueryLocated(inner) THEN LocatedQuery(inner) ELSE <<>>)
              /\ calls[c].topK =
                   (IF /\ IsFiniteNum(k)
                       /\ (IsStrField(inner, "query") \/ IsStrField(inner, "q"))
                    THEN ClampedTopK(k.h) ELSE 8)
              /\ ~QueryLocated(inner) => RespError(c, "invalid_query")
         /\ IsFetch(c) =>
              /\ calls[c].id =
                   Trim(IF IdLocated(inner) THEN LocatedId(inner) ELSE <<>>)
              /\ ~IdLocated(inner) => RespError(c, "invalid_id")

\* a search is rejected whose payload holds a valid query and a topK next to
\* an `arguments` key, the value of which is an object without a query
C29_Witness ==
  \E c \in Slots :
    /\ IsSearch(c) /\ Enveloped(calls[c].raw)
    /\ calls[c].raw.f.arguments.t = "obj"
    /\ IsStrField(calls[c].raw, "query")
    /\ ~IsBlank(calls[c].raw.f.query.s)
    /\ IsFiniteNum(calls[c].raw.f.topK)
    /\ RespError(c, "invalid_query")
    /\ calls[c].topK = 8

----------------------------------------------------------------------------
(* C26: search, then fetch *)

\* fetch call d has answered with a document
Fetched(d) == IsFetch(d) /\ calls[d].pc = "done" /\ ~calls[d].resp.isError

\* C26: when a fetch asks for the id of an entry a search returned, it is
\* answered with a document whose text and metadata are those of the chunk
\* the search ranked at that entry
C26_FetchReturnsRankedChunk ==
  \A c, d \in Slots :
    (Ranked(c) /\ IsFetch(d) /\ calls[d].pc = "done") =>
      \A i \in DOMAIN calls[c].scored :
        LET ranked == index.chunks[calls[c].scored[i].chunk]
        IN calls[c].resp.body.results[i].id = calls[d].id =>
             /\ Fetched(d)
             /\ calls[d].resp.body.text = ranked.text
             /\ calls[d].resp.body.metadata = ranked.meta

----------------------------------------------------------------------------
(* C27: one order for an Idempotency-Key *)

\* the orderId of the order request i created
OrderIdOf(i) == Log[i].body.orderId

\* at most one request with a given key has created an order, the orders
\* created have different ids, and the record of a key holds the response of
\* the request that created the key's order
OneOrderPerKey ==
  /\ \A i, j \in 1..Len(Log) :
       (i # j /\ Created(i) /\ Created(j)) =>
         KeyText(i) # KeyText(j) /\ OrderIdOf(i) # OrderIdOf(j)
  /\ \A i \in 1..Len(Log) :
       Created(i) =>
         /\ KeyText(i) \in DOMAIN orders.idemStore
         /\ orders.idemStore[KeyText(i)].responseBody = Log[i].body
  /\ Cardinality(DOMAIN orders.idemStore) =
       Cardinality({i \in 1..Len(Log) : Created(i)})

\* a request leaves every stored record as it is
RecordsKept ==
  \A key \in DOMAIN orders.idemStore :
    /\ key \in DOMAIN orders'.idemStore
    /\ orders'.idemStore[key] = orders.idemStore[key]

\* C27: whatever POST /v1/orders requests arrive and in whatever order they
\* are handled, at most one order is created for an Idempotency-Key, and a
\* record of the store is never overwritten or removed
C27_OneOrderPerKey == []OneOrderPerKey /\ [][RecordsKept]_vars

\* a key has created one order and was then used twice more, with the same
\* body and with another one, while a second key created its own order
C27_Witness ==
  \E i, j, k \in 1..Len(Log) :
    /\ i < j /\ i < k /\ j # k
    /\ Created(i) /\ KeyText(j) = KeyText(i) /\ ~Created(j)
    /\ Log[j].status = 409
    /\ Created(k) /\ KeyText(k) # KeyText(i)

----------------------------------------------------------------------------
(* C28: only a 201 for a new key changes the store *)

\* the request the step has handled, and its key
Handled == orders'.log[Len(orders'.log)]
HandledKey ==
  LET h == Handled.header
  IN IF h = Absent THEN <<>>
     ELSE IF h.t = "list" THEN Trim(h.xs[1].s) ELSE Trim(h.s)

\* a request answered 400 or 409, or answered for a key that was stored,
\* leaves the store as it is; a step that changes the store was answered 201
\* for a key that was not stored, and adds the record of that key only
StoreFrame ==
  /\ Handled.status \in {400, 409} => orders'.idemStore = orders.idemStore
  /\ HandledKey \in DOMAIN orders.idemStore =>
       orders'.idemStore = orders.idemStore
  /\ orders'.idemStore # orders.idemStore =>
       /\ Handled.status = 201
       /\ HandledKey \notin DOMAIN orders.idemStore
       /\ DOMAIN orders'.idemStore = DOMAIN orders.idemStore \union {HandledKey}
       /\ \A key \in DOMAIN orders.idemStore :
            orders'.idemStore[key] = orders.idemStore[key]
       /\ orders'.idemStore[HandledKey].responseBody = Handled.body

\* C28: a POST /v1/orders answered with 400, with 409 or with a replayed
\* stored response leaves the idempotency store unchanged; the store changes
\* only by one added record, when a request with a new valid key is
\* answered 201
C28_StoreChangesOnlyOnCreate == [][StoreFrame]_vars

\* after an order was created, its key was answered with 409 and with the
\* replayed response, and the store holds the one record
C28_Witness ==
  /\ Cardinality(DOMAIN orders.idemStore) = 1
  /\ \E i, j, k \in 1..Len(Log) :
       /\ Created(i) /\ i < j /\ i < k
       /\ Log[j].status = 409
       /\ Log[k].status = 201 /\ ~Created(k) /\ Log[k].body = Log[i].body

====
